---- MODULE Spec2Model ----
(***************************************************************************)
(* Exam session state machine of the Interview-Prep-Trainer backend:       *)
(* ExamService (start_exam, submit_answer, get_exam, get_all_exams),       *)
(* HintService (get_hint), the question generator and the answer grader    *)
(* they call, and the exams table they read and write.                     *)
(*                                                                         *)
(* Conventions of the translation                                          *)
(*  - a Python dict is a TLA+ record; a key that the dict does not carry   *)
(*    is a field the record does not have (Get models dict.get);           *)
(*  - a float score is an integer number of hundredths of a point          *)
(*    (10.0 is 1000); round(x, 1) is round-half-even on the exact value.   *)
(*    The score alphabets below avoid the few values on which the binary   *)
(*    double product lands on the other side of a tie;                     *)
(*  - answers and feedback strings are sequences of one-character (or      *)
(*    literal) strings so that strip, upper, lower and split are computed; *)
(*  - None is the token NoneStr for string columns and 0 for the nullable  *)
(*    integer time limit;                                                  *)
(*  - an operation that can raise returns [ok |-> FALSE, error |-> e];     *)
(*  - every language-model call is an input: the outcome of each attempt   *)
(*    is drawn from a bounded set by the action that makes the call.       *)
(***************************************************************************)
EXTENDS Integers, Sequences, FiniteSets, TLC

(***************************************************************************)
(* Bounds of the model                                                     *)
(***************************************************************************)
\* largest num_questions a start_exam request carries in the model
MaxQuestions == 2

(***************************************************************************)
(* Program constants                                                       *)
(***************************************************************************)
MAX_RETRIES == 3
DEFAULT_EXAM_QUESTIONS == 5
MAX_HINTS_PER_QUESTION == 3
\* 0.15, as a percentage of the raw score
HINT_PENALTY_PER_HINT == 15

NoneStr == "<None>"
NoneInt == 0

MODE_TIME_LIMITS(mode) ==
    CASE mode = "practice" -> NoneInt
      [] mode = "timed"    -> 300
      [] mode = "mock"     -> 420
      [] OTHER             -> NoneInt

(***************************************************************************)
(* Python helpers                                                          *)
(***************************************************************************)
\* dict.get(k, default)
Get(d, k, default) == IF k \in DOMAIN d THEN d[k] ELSE default

\* truthiness of a string-valued or token-valued field
Truthy(v) == v \notin {"", NoneStr, "{}"}

Max(a, b) == IF a >= b THEN a ELSE b
Min(a, b) == IF a <= b THEN a ELSE b

\* round(num / den) to the nearest integer, ties to even (Python round)
RoundHalfEven(num, den) ==
    LET q == num \div den
        r == num % den
    IN  IF 2 * r > den THEN q + 1
        ELSE IF 2 * r < den THEN q
        ELSE IF q % 2 = 0 THEN q ELSE q + 1

\* str.upper / str.lower on one character
UpperChar(c) ==
    CASE c = "a" -> "A" [] c = "b" -> "B" [] c = "c" -> "C" [] c = "d" -> "D"
      [] c = "x" -> "X" [] c = "y" -> "Y" [] OTHER -> c

LowerChar(c) ==
    CASE c = "A" -> "a" [] c = "B" -> "b" [] c = "C" -> "c" [] c = "D" -> "d"
      [] c = "X" -> "x" [] c = "Y" -> "y" [] OTHER -> c

upper(s) == [i \in 1..Len(s) |-> UpperChar(s[i])]
lower(s) == [i \in 1..Len(s) |-> LowerChar(s[i])]

\* str.strip(): drop leading and trailing white space
RECURSIVE lstrip(_)
lstrip(s) == IF s # <<>> /\ Head(s) = " " THEN lstrip(Tail(s)) ELSE s

RECURSIVE rstrip(_)
rstrip(s) ==
    IF s # <<>> /\ s[Len(s)] = " " THEN rstrip(SubSeq(s, 1, Len(s) - 1)) ELSE s

strip(s) == rstrip(lstrip(s))

\* set(str.split()): the set of white-space separated words
RECURSIVE split_words(_, _)
split_words(s, cur) ==
    IF s = <<>> THEN (IF cur = <<>> THEN {} ELSE {cur})
    ELSE IF Head(s) = " "
         THEN (IF cur = <<>> THEN {} ELSE {cur}) \cup split_words(Tail(s), <<>>)
         ELSE split_words(Tail(s), Append(cur, Head(s)))

words(s) == split_words(lower(s), <<>>)

\* repr of a score that has one decimal, as in an f-string ("8.5")
FormatScore(score) ==
    ToString(score \div 100) \o "." \o ToString((score % 100) \div 10)

(***************************************************************************)
(* Question generator                                                      *)
(*                                                                         *)
(* An attempt outcome is [kind |-> "error"] (the call raised),             *)
(* [kind |-> "nojson"] (no JSON object could be extracted) or              *)
(* [kind |-> "json", data |-> d] (the extracted object d).                 *)
(***************************************************************************)
Raise(e) == [ok |-> FALSE, error |-> e]
Return(v) == [ok |-> TRUE, value |-> v]

\* --- extraction of a JSON object from the text of a model ---
\* A text is a sequence of tokens: "F" is a code fence (```), "{" and "}"
\* are braces, "k" is a member key with its colon, "v" is a scalar value and
\* " " is white space.  Separating commas are not written.
NoMatch == <<"<no match>">>

\* json.loads: a value is a scalar or an object of keyed values; white space
\* around tokens is ignored.  ParseValue and ParseMembers give the index
\* after what they read, 0 when the text is not JSON.
RECURSIVE ParseValue(_, _)
RECURSIVE ParseMembers(_, _)
ParseValue(t, i) ==
    IF i > Len(t) THEN 0
    ELSE IF t[i] = "v" THEN i + 1
    ELSE IF t[i] = "{" THEN ParseMembers(t, i + 1)
    ELSE 0

ParseMembers(t, i) ==
    IF i > Len(t) THEN 0
    ELSE IF t[i] = "}" THEN i + 1
    ELSE IF t[i] = "k"
         THEN LET j == ParseValue(t, i + 1) IN IF j = 0 THEN 0 ELSE ParseMembers(t, j)
    ELSE 0

json_loads(text) ==
    LET t == SelectSeq(text, LAMBDA c : c # " ")
    IN  IF t # <<>> /\ ParseValue(t, 1) = Len(t) + 1 THEN Return(t)
        ELSE Raise("JSONDecodeError")

\* first index from i on that holds no white space (Len + 1 when none)
RECURSIVE SkipSpace(_, _)
SkipSpace(text, i) ==
    IF i <= Len(text) /\ text[i] = " " THEN SkipSpace(text, i + 1) ELSE i

\* first index from i on that holds a brace (Len + 1 when none)
RECURSIVE SkipPlain(_, _)
SkipPlain(text, i) ==
    IF i <= Len(text) /\ text[i] \notin {"{", "}"} THEN SkipPlain(text, i + 1) ELSE i

\* re.search(r"```(?:json)?\s*(\{.*?\})\s*```", text, re.DOTALL).group(1):
\* leftmost fence followed by "{", then the shortest stretch to a "}" that
\* is followed by a fence
code_block_search(text) ==
    LET opens(i) == text[i] = "F" /\ SkipSpace(text, i + 1) <= Len(text)
                                 /\ text[SkipSpace(text, i + 1)] = "{"
        closes(q) == text[q] = "}" /\ SkipSpace(text, q + 1) <= Len(text)
                                  /\ text[SkipSpace(text, q + 1)] = "F"
        ends(i) == {q \in (SkipSpace(text, i + 1) + 1)..Len(text) : closes(q)}
        starts == {i \in 1..Len(text) : opens(i) /\ ends(i) # {}}
    IN  IF starts = {} THEN NoMatch
        ELSE LET i == CHOOSE a \in starts : \A b \in starts : a <= b
                 q == CHOOSE a \in ends(i) : \A b \in ends(i) : a <= b
             IN  SubSeq(text, SkipSpace(text, i + 1), q)

\* where the object pattern that entered a "{" and stands at index j ends:
\* at a "}", or after one more inner object without braces of its own
RECURSIVE ObjectEnd(_, _)
ObjectEnd(text, j) ==
    IF j > Len(text) THEN 0
    ELSE IF text[j] = "}" THEN j
    ELSE LET k == SkipPlain(text, j + 1)
         IN  IF k <= Len(text) /\ text[k] = "}"
             THEN ObjectEnd(text, SkipPlain(text, k + 1))
             ELSE 0

\* re.search(r"\{[^{}]*(?:\{[^{}]*\}[^{}]*)*\}", text, re.DOTALL).group(0)
json_match_search(text) ==
    LET end(i) == ObjectEnd(text, SkipPlain(text, i + 1))
        starts == {i \in 1..Len(text) : text[i] = "{" /\ end(i) # 0}
    IN  IF starts = {} THEN NoMatch
        ELSE LET i == CHOOSE a \in starts : \A b \in starts : a <= b
             IN  SubSeq(text, i, end(i))

\* crew._extract_json
crew_extract_json(text) ==
    LET code_block == code_block_search(text)
        json_match == json_match_search(text)
    IN  IF code_block # NoMatch THEN json_loads(code_block)
        ELSE IF json_match # NoMatch THEN json_loads(json_match)
        ELSE json_loads(strip(text))

\* question_service._extract_json
_extract_json(raw) ==
    LET code_block == code_block_search(raw)
        text == IF code_block # NoMatch THEN code_block ELSE strip(raw)
        json_match == json_match_search(text)
    IN  json_loads(IF json_match # NoMatch THEN json_match ELSE text)

\* GradingCrew.generate_question: one pipeline run, no validation of the
\* extracted values (missing keys become "")
crew_generate_question(out, question_type) ==
    IF out.kind # "json" THEN Raise("ValueError")
    ELSE LET data == out.data
             base == [question_text  |-> Get(data, "question_text", ""),
                      correct_answer |-> Get(data, "correct_answer", <<>>),
                      explanation    |-> Get(data, "explanation", "")]
             withOpt == IF question_type = "multiple_choice"
                        THEN base @@ [options |-> Get(data, "options", "{}")]
                        ELSE base
         IN  Return(IF Truthy(Get(data, "code_snippet", NoneStr))
                    THEN withOpt @@ [code_snippet |-> data.code_snippet]
                    ELSE withOpt)

\* does fallback attempt i return?  (both keys present; values unchecked)
FallbackAttemptValid(out) ==
    /\ out.kind = "json"
    /\ "question_text" \in DOMAIN out.data
    /\ "correct_answer" \in DOMAIN out.data

\* the gateway calls _fallback_generate makes: it stops at the first attempt
\* that returns, and runs out after MAX_RETRIES
fallback_attempts(script) ==
    LET valid == {i \in 1..MAX_RETRIES : FallbackAttemptValid(script[i])}
    IN  IF valid = {} THEN MAX_RETRIES
        ELSE CHOOSE i \in valid : \A j \in valid : i <= j

\* variant: a call that raises ends the fallback at once
_fallback_generate_FailFast(script) ==
    LET valid == {i \in 1..MAX_RETRIES : FallbackAttemptValid(script[i])}
        raised == {i \in 1..MAX_RETRIES : script[i].kind = "error"}
    IN  IF valid = {} THEN Raise("GenerationFailed")
        ELSE IF \E i \in raised : \A j \in valid : i < j THEN Raise("GenerationFailed")
        ELSE Return(script[CHOOSE i \in valid : \A j \in valid : i <= j].data)

\* QuestionService._fallback_generate: up to MAX_RETRIES direct calls
_fallback_generate(script) ==
    LET valid == {i \in 1..MAX_RETRIES : FallbackAttemptValid(script[i])}
    IN  IF valid = {} THEN Raise("GenerationFailed")
        ELSE Return(script[CHOOSE i \in valid : \A j \in valid : i <= j].data)

\* QuestionService.generate_question: pipeline first, fallback on any raise;
\* the returned payload always carries the same ten keys
generate_question(gen, topic, difficulty, question_type, category) ==
    LET primary == crew_generate_question(gen.crew, question_type)
        got == IF primary.ok THEN primary ELSE _fallback_generate(gen.fallback)
    IN  IF ~got.ok THEN got
        ELSE LET data == got.value
             IN  Return([id             |-> "qid",
                         topic          |-> topic,
                         difficulty     |-> difficulty,
                         question_type  |-> question_type,
                         category       |-> category,
                         question_text  |-> data.question_text,
                         correct_answer |-> data.correct_answer,
                         explanation    |-> Get(data, "explanation", ""),
                         options        |-> Get(data, "options", NoneStr),
                         code_snippet   |-> Get(data, "code_snippet", NoneStr)])

\* the row generate_question builds from what it got (the code snippet is
\* not a column)
db_data(payload) ==
    [topic          |-> payload.topic,
     difficulty     |-> payload.difficulty,
     question_type  |-> payload.question_type,
     category       |-> payload.category,
     question_text  |-> payload.question_text,
     correct_answer |-> payload.correct_answer,
     explanation    |-> payload.explanation,
     options        |-> payload.options]

\* variant: the row is added to the session and never committed
QuestionRepository_create_NoCommit(table, data) == table

\* QuestionRepository.create: insert one row
QuestionRepository_create(table, data) == Append(table, data)

\* the questions table after a generate_question call that returned or
\* raised generated: the row is written after the data was obtained and
\* before the payload is returned; a call that raised never reaches it
generate_question_saves(table, generated) ==
    IF generated.ok THEN QuestionRepository_create(table, db_data(generated.value))
    ELSE table

(***************************************************************************)
(* Answer grader, as ExamService uses it                                   *)
(***************************************************************************)
\* GradingService._score_to_grade: band of a score out of ten
GradingService_score_to_grade(score) ==
    IF score >= 900 THEN "A"
    ELSE IF score >= 700 THEN "B"
    ELSE IF score >= 500 THEN "C"
    ELSE IF score >= 300 THEN "D"
    ELSE "F"

\* a score value that float() does not convert (null, "8/10", "high"): float
\* raises on it.  Every other score of the model is a number of hundredths.
NonNumericScore == -1000000

\* GradingService._parse_llm_response: None (ok = FALSE) unless a JSON object
\* with a score key was extracted, a raise when the score is not a number;
\* the score is clamped, the other fields are taken from the output when it
\* carries them
_parse_llm_response(out) ==
    IF out.kind # "json" THEN Raise("None")
    ELSE IF "score" \notin DOMAIN out.data THEN Raise("None")
    ELSE IF out.data.score = NonNumericScore THEN Raise("ValueError")
    ELSE LET data == out.data
             score == data.score
         IN  Return([score           |-> Max(0, Min(1000, score)),
                     max_score       |-> 10,
                     grade_letter    |-> Get(data, "grade_letter",
                                             GradingService_score_to_grade(score)),
                     passed          |-> Get(data, "passed", score >= 500),
                     mistakes        |-> Get(data, "mistakes", <<>>),
                     strengths       |-> Get(data, "strengths", <<>>),
                     feedback        |-> Get(data, "feedback", <<>>),
                     recommendations |-> Get(data, "recommendations", <<>>),
                     encouragement   |-> Get(data, "encouragement", <<>>)])

\* the prompt of attempt number `attempt` of the loop (counted from 0)
current_prompt(attempt) ==
    IF attempt = 1 THEN "prompt + RETRY_ADDITION"
    ELSE IF attempt = 2 THEN "simplified prompt"
    ELSE "prompt"

\* does the attempt with this outcome return a result?
AttemptReturns(out) == out.kind # "error" /\ _parse_llm_response(out).ok

\* the gateway calls the loop makes when settings.MAX_RETRIES is max_retries
single_prompt_attempts(max_retries, script) ==
    LET good == {i \in 1..max_retries : AttemptReturns(script[i])}
    IN  IF good = {} THEN max_retries
        ELSE CHOOSE i \in good : \A j \in good : i <= j

\* the prompts of those calls, in order
single_prompt_prompts(max_retries, script) ==
    [i \in 1..single_prompt_attempts(max_retries, script) |-> current_prompt(i - 1)]

\* variant: one attempt, no retry
_grade_single_prompt_with_OneShot(max_retries, script) ==
    IF AttemptReturns(script[1]) THEN _parse_llm_response(script[1])
    ELSE Raise("ValueError")

\* GradingService._grade_single_prompt when settings.MAX_RETRIES is
\* max_retries: the first attempt that parses wins; a raising call, an
\* unusable output and a raise of the parser each use up one attempt
_grade_single_prompt_with(max_retries, script) ==
    LET good == {i \in 1..max_retries : AttemptReturns(script[i])}
    IN  IF good = {} THEN Raise("ValueError")
        ELSE _parse_llm_response(script[CHOOSE i \in good : \A j \in good : i <= j])

\* GradingService._grade_single_prompt with the shipped setting
_grade_single_prompt(script) == _grade_single_prompt_with(MAX_RETRIES, script)

\* variant: the overlap is taken over the union of the two word sets
_basic_similarity_Jaccard(text1, text2) ==
    LET words1 == words(text1)
        words2 == words(text2)
    IN  IF words1 = {} \/ words2 = {} THEN <<0, 1>>
        ELSE <<Cardinality(words1 \cap words2), Cardinality(words1 \cup words2)>>

\* _basic_similarity, as the pair <<numerator, denominator>>
_basic_similarity(text1, text2) ==
    LET words1 == words(text1)
        words2 == words(text2)
    IN  IF words1 = {} \/ words2 = {} THEN <<0, 1>>
        ELSE <<Cardinality(words1 \cap words2),
               Max(Cardinality(words1), Cardinality(words2))>>

\* GradeRequest validation: the three texts have min_length 1
GradeRequestValid(question, correct_answer, student_answer) ==
    question # "" /\ correct_answer # <<>> /\ student_answer # <<>>

\* variant: the labels are compared as typed, only trimmed
_grade_answer_CaseSensitive(question, correct_answer, student_answer, question_type, script) ==
    IF question_type = "multiple_choice"
    THEN LET is_correct == strip(student_answer) = strip(correct_answer)
         IN  [score         |-> IF is_correct THEN 1000 ELSE 0,
              passed        |-> is_correct,
              feedback      |-> IF is_correct THEN <<"Correct!">>
                                ELSE <<"The correct answer was ">> \o correct_answer \o <<".">>,
              encouragement |-> IF is_correct THEN <<"Great job!">>
                                ELSE <<"Keep studying, you'll get there!">>]
    ELSE LET result == IF GradeRequestValid(question, correct_answer, student_answer)
                       THEN _grade_single_prompt(script)
                       ELSE Raise("ValidationError")
         IN  IF result.ok THEN result.value
             ELSE LET similarity == _basic_similarity(student_answer, correct_answer)
                      \* round(similarity * 10, 1), in hundredths
                      score == 10 * RoundHalfEven(similarity[1] * 100, similarity[2])
                  IN  [score         |-> score,
                       passed        |-> score >= 500,
                       feedback      |-> <<"Your answer received a score of ",
                                           FormatScore(score), "/10.">>,
                       encouragement |-> <<"Keep learning and improving!">>]

\* ExamService._grade_answer
_grade_answer(question, correct_answer, student_answer, question_type, script) ==
    IF question_type = "multiple_choice"
    THEN LET is_correct == upper(strip(student_answer)) = upper(strip(correct_answer))
         IN  [score         |-> IF is_correct THEN 1000 ELSE 0,
              passed        |-> is_correct,
              feedback      |-> IF is_correct THEN <<"Correct!">>
                                ELSE <<"The correct answer was ">> \o correct_answer \o <<".">>,
              encouragement |-> IF is_correct THEN <<"Great job!">>
                                ELSE <<"Keep studying, you'll get there!">>]
    ELSE LET result == IF GradeRequestValid(question, correct_answer, student_answer)
                       THEN _grade_single_prompt(script)
                       ELSE Raise("ValidationError")
         IN  IF result.ok THEN result.value
             ELSE LET similarity == _basic_similarity(student_answer, correct_answer)
                      \* round(similarity * 10, 1), in hundredths
                      score == 10 * RoundHalfEven(similarity[1] * 100, similarity[2])
                  IN  [score         |-> score,
                       passed        |-> score >= 500,
                       feedback      |-> <<"Your answer received a score of ",
                                           FormatScore(score), "/10.">>,
                       encouragement |-> <<"Keep learning and improving!">>]

(***************************************************************************)
(* Answer grader: GradingService.grade and the multi-agent pipeline        *)
(*                                                                         *)
(* A pipeline run is [kind |-> "error"] (building or running the crew      *)
(* raised) or [kind |-> "ran", grading, feedback, review], the output of   *)
(* each stage being an attempt outcome: an extracted JSON object or none.  *)
(***************************************************************************)
\* GradingCrew._combine_results: every stage is parsed on its own, a stage
\* that does not parse leaves the defaults; the score is not clamped.  The
\* four assignments of the grading stage run in order inside one try: when
\* float() raises on the score none of them is made, when int() raises on
\* max_score the score has been assigned and the letter and the verdict
\* have not
_combine_results(grading_out, feedback_out, review_out) ==
    LET grading_data == IF grading_out.kind = "json" THEN grading_out.data ELSE <<>>
        extracted == grading_out.kind = "json"
        score_set == extracted /\ Get(grading_data, "score", 500) # NonNumericScore
        parsed == score_set /\ Get(grading_data, "max_score", 10) # NonNumericScore
        score == IF score_set THEN Get(grading_data, "score", 500) ELSE 500
        feedback_data == IF feedback_out.kind = "json" THEN feedback_out.data
                         ELSE [none |-> TRUE]
        review_data == IF review_out.kind = "json" THEN review_out.data
                       ELSE [none |-> TRUE]
    IN  [score           |-> score,
         max_score       |-> IF parsed THEN Get(grading_data, "max_score", 10) ELSE 10,
         grade_letter    |-> IF parsed THEN Get(grading_data, "grade_letter", "C") ELSE "C",
         passed          |-> IF parsed THEN Get(grading_data, "passed", score >= 500)
                             ELSE TRUE,
         mistakes        |-> Get(feedback_data, "mistakes", <<>>),
         strengths       |-> Get(feedback_data, "strengths", <<>>),
         feedback        |-> Get(feedback_data, "feedback", <<>>),
         recommendations |-> Get(feedback_data, "recommendations", <<>>),
         encouragement   |-> Get(review_data, "encouragement", <<>>)]

\* GradingCrew.grade_written
grade_written(run) ==
    IF run.kind = "error" THEN Raise("Exception")
    ELSE Return(_combine_results(run.grading, run.feedback, run.review))

\* variant: the score and the verdict of the feedback stage are used when
\* it gives them
_combine_mcq_results_TrustFeedback(feedback_out, review_out, score, grade_letter, passed) ==
    LET feedback_data == IF feedback_out.kind = "json" THEN feedback_out.data
                         ELSE [none |-> TRUE]
        review_data == IF review_out.kind = "json" THEN review_out.data
                       ELSE [none |-> TRUE]
    IN  [score           |-> Get(feedback_data, "score", score),
         max_score       |-> 10,
         grade_letter    |-> grade_letter,
         passed          |-> Get(feedback_data, "passed", passed),
         mistakes        |-> Get(feedback_data, "mistakes", <<>>),
         strengths       |-> Get(feedback_data, "strengths", <<>>),
         feedback        |-> Get(feedback_data, "feedback", <<>>),
         recommendations |-> Get(feedback_data, "recommendations", <<>>),
         encouragement   |-> Get(review_data, "encouragement", <<>>)]

\* GradingCrew._combine_mcq_results: score, grade_letter and passed are the
\* arguments; the stages give the texts only
_combine_mcq_results(feedback_out, review_out, score, grade_letter, passed) ==
    LET feedback_data == IF feedback_out.kind = "json" THEN feedback_out.data
                         ELSE [none |-> TRUE]
        review_data == IF review_out.kind = "json" THEN review_out.data
                       ELSE [none |-> TRUE]
    IN  [score           |-> score,
         max_score       |-> 10,
         grade_letter    |-> grade_letter,
         passed          |-> passed,
         mistakes        |-> Get(feedback_data, "mistakes", <<>>),
         strengths       |-> Get(feedback_data, "strengths", <<>>),
         feedback        |-> Get(feedback_data, "feedback", <<>>),
         recommendations |-> Get(feedback_data, "recommendations", <<>>),
         encouragement   |-> Get(review_data, "encouragement", <<>>)]

\* GradingCrew.grade_mcq
grade_mcq(run, score, grade_letter, passed) ==
    IF run.kind = "error" THEN Raise("Exception")
    ELSE Return(_combine_mcq_results(run.feedback, run.review, score, grade_letter, passed))

\* GradingService._grade_mcq: the labels are compared as they are
_grade_mcq(request, GRADING_MODE, run) ==
    LET is_correct == request.student_answer = request.correct_answer
        score == IF is_correct THEN 1000 ELSE 0
        grade_letter == IF is_correct THEN "A" ELSE "F"
        passed == is_correct
        crew == IF GRADING_MODE = "crew" THEN grade_mcq(run, score, grade_letter, passed)
                ELSE Raise("not tried")
    IN  IF crew.ok THEN crew
        ELSE Return(
          [score           |-> score,
           max_score       |-> 10,
           grade_letter    |-> grade_letter,
           passed          |-> passed,
           mistakes        |-> IF is_correct THEN <<>>
                               ELSE <<[type |-> "incorrect",
                                       description |-> <<"Selected ">> \o request.student_answer
                                                       \o <<" instead of ">>
                                                       \o request.correct_answer]>>,
           strengths       |-> IF is_correct THEN <<"Correct answer selected">> ELSE <<>>,
           feedback        |-> IF is_correct THEN <<"Correct!">>
                               ELSE <<"The correct answer was ">> \o request.correct_answer
                                    \o <<".">>,
           recommendations |-> <<>>,
           encouragement   |-> IF is_correct THEN <<"Great job!">>
                               ELSE <<"Keep studying, you'll get it next time!">>])

\* GradingService._grade_written: the pipeline, then the single-prompt
\* path, whose ValueError is not caught
_grade_written(request, GRADING_MODE, run, script) ==
    LET crew == IF GRADING_MODE = "crew" THEN grade_written(run) ELSE Raise("not tried")
    IN  IF crew.ok THEN crew ELSE _grade_single_prompt(script)

\* GradingService.grade (the row it adds to the submissions table is left
\* out)
grade(request, GRADING_MODE, run, script) ==
    IF request.question_type = "multiple_choice"
    THEN _grade_mcq(request, GRADING_MODE, run)
    ELSE _grade_written(request, GRADING_MODE, run, script)

\* the grading tiers GradingService._grade_written calls, in the order of
\* the calls: the pipeline when the mode is crew, the single-prompt path when
\* the pipeline was not tried or raised
_grade_written_tiers(GRADING_MODE, run, script) ==
    IF GRADING_MODE # "crew" THEN <<"single">>
    ELSE IF grade_written(run).ok THEN <<"pipeline">>
    ELSE <<"pipeline", "single">>

\* the grading tiers ExamService._grade_answer calls for a written answer:
\* the single-prompt path unless building the GradeRequest raises, the
\* similarity of the two texts when either raised
_grade_answer_tiers(question, correct_answer, student_answer, script) ==
    IF ~GradeRequestValid(question, correct_answer, student_answer) THEN <<"similarity">>
    ELSE IF _grade_single_prompt(script).ok THEN <<"single">>
    ELSE <<"single", "similarity">>

(***************************************************************************)
(* Hint issuer                                                             *)
(***************************************************************************)
fallback_hints(hint_number) ==
    CASE hint_number = 1 ->
           "Think about what data structure or approach would be most efficient here."
      [] hint_number = 2 ->
           "Consider breaking the problem into smaller sub-problems."
      [] hint_number = 3 ->
           "Review the key concepts related to this topic and look for edge cases."
      [] OTHER -> "Review the fundamentals of this topic."

\* variant: no generic hint, the raw text (none) when the call raised
_generate_hint_NoFallback(out, hint_number) ==
    IF out.kind = "error" THEN ""
    ELSE IF out.kind = "json" THEN Get(out.data, "hint", out.raw)
    ELSE out.raw

\* HintService._generate_hint: never raises.  out.kind is "error" (the HTTP
\* call raised), "json" (a flat object was found and parsed) or "nojson";
\* out.raw is the stripped raw text
_generate_hint(out, hint_number) ==
    IF out.kind = "error" THEN fallback_hints(hint_number)
    ELSE IF out.kind = "json" THEN Get(out.data, "hint", out.raw)
    ELSE out.raw

(***************************************************************************)
(* Projections sent to the client                                          *)
(***************************************************************************)
\* variant: the payload with its correct_answer key removed
_sanitize_question_Blacklist(question, question_type, category) ==
    [k \in DOMAIN question \ {"correct_answer"} |-> question[k]]

\* _sanitize_question: only whitelisted keys of the generator payload
_sanitize_question(question, question_type, category) ==
    LET result == [question_text |-> Get(question, "question_text", ""),
                   question_type |-> question_type,
                   category      |-> category,
                   topic         |-> Get(question, "topic", ""),
                   difficulty    |-> Get(question, "difficulty", "")]
        withOpt == IF question_type = "multiple_choice"
                      /\ Truthy(Get(question, "options", NoneStr))
                   THEN result @@ [options |-> question.options]
                   ELSE result
    IN  IF Truthy(Get(question, "code_snippet", NoneStr))
        THEN withOpt @@ [code_snippet |-> question.code_snippet]
        ELSE withOpt

\* variant: every record is projected as an answered one
_redact_question_NoPendingBranch(q) ==
    [pending        |-> Get(q, "pending", FALSE),
     question_text  |-> Get(q, "question_text", ""),
     student_answer |-> Get(q, "student_answer", <<>>),
     correct_answer |-> Get(q, "correct_answer", <<>>),
     score          |-> Get(q, "score", 0),
     is_correct     |-> Get(q, "is_correct", FALSE),
     feedback       |-> Get(q, "feedback", <<>>)]

\* _redact_question
_redact_question(q) ==
    IF Get(q, "pending", FALSE)
    THEN [pending       |-> TRUE,
          question_text |-> Get(q, "question_text", ""),
          options       |-> Get(q, "options", NoneStr)]
    ELSE [pending        |-> FALSE,
          question_text  |-> Get(q, "question_text", ""),
          student_answer |-> Get(q, "student_answer", <<>>),
          correct_answer |-> Get(q, "correct_answer", <<>>),
          score          |-> Get(q, "score", 0),
          is_correct     |-> Get(q, "is_correct", FALSE),
          feedback       |-> Get(q, "feedback", <<>>)]

\* variant: the lower edge of every band is left out of it
_score_to_grade_Strict(num, den) ==
    IF num > 90 * den THEN "A"
    ELSE IF num > 70 * den THEN "B"
    ELSE IF num > 50 * den THEN "C"
    ELSE IF num > 30 * den THEN "D"
    ELSE "F"

\* _score_to_grade of exam_service, on the percentage num / den
_score_to_grade(num, den) ==
    IF num >= 90 * den THEN "A"
    ELSE IF num >= 70 * den THEN "B"
    ELSE IF num >= 50 * den THEN "C"
    ELSE IF num >= 30 * den THEN "D"
    ELSE "F"

\* ExamService._build_summary; percentage is kept in tenths of a percent
_build_summary(exam_id, exam, questions_list, total_score) ==
    LET max_score == exam.total_questions * 10
        percentage == IF max_score > 0
                      THEN RoundHalfEven(total_score, exam.total_questions)
                      ELSE 0
    IN  [exam_id         |-> exam_id,
         topic           |-> exam.topic,
         difficulty      |-> exam.difficulty,
         total_questions |-> exam.total_questions,
         total_score     |-> total_score,
         max_score       |-> max_score,
         percentage      |-> percentage,
         grade_letter    |-> _score_to_grade(percentage, 10),
         passed          |-> percentage >= 500,
         questions       |-> [i \in 1..Len(questions_list) |->
                                LET q == questions_list[i]
                                IN  [question_text  |-> Get(q, "question_text", ""),
                                     correct_answer |-> Get(q, "correct_answer", <<>>),
                                     student_answer |-> Get(q, "student_answer", <<>>),
                                     score          |-> Get(q, "score", 0),
                                     is_correct     |-> Get(q, "is_correct", FALSE),
                                     feedback       |-> Get(q, "feedback", <<>>)]]]

(***************************************************************************)
(* Exams table                                                             *)
(*                                                                         *)
(* exams maps the identifier of every stored session to its row; an        *)
(* identifier outside DOMAIN exams matches no session.                     *)
(***************************************************************************)
\* ExamRepository.create: insert one row (column defaults filled in)
ExamRepository_create(store, exam_id, data) ==
    [i \in DOMAIN store \cup {exam_id} |->
        IF i = exam_id
        THEN data @@ [created_at |-> "created", completed_at |-> NoneStr]
        ELSE store[i]]

\* variant: the score_total column is not written
ExamRepository_update_KeepsScore(store, exam_id, data) ==
    [store EXCEPT ![exam_id] =
        [k \in DOMAIN store[exam_id] |->
            IF k \in DOMAIN data \ {"score_total"} THEN data[k] ELSE store[exam_id][k]]]

\* ExamRepository.update: set every given column of one row, keep the others
ExamRepository_update(store, exam_id, data) ==
    [store EXCEPT ![exam_id] =
        [k \in DOMAIN store[exam_id] |->
            IF k \in DOMAIN data THEN data[k] ELSE store[exam_id][k]]]

(***************************************************************************)
(* ExamService.start_exam                                                  *)
(***************************************************************************)
\* the new pending record built from a generator payload
PendingRecord(question) ==
    [pending        |-> TRUE,
     question_text  |-> question.question_text,
     correct_answer |-> question.correct_answer,
     explanation    |-> Get(question, "explanation", ""),
     options        |-> Get(question, "options", NoneStr),
     code_snippet   |-> Get(question, "code_snippet", NoneStr)]

\* generated is what the awaited generate_question call returned or raised
start_exam(exam_id, generated, topic, difficulty, num_questions, question_type, category, mode, time_limit_seconds) ==
    LET num_q == IF num_questions # 0 THEN num_questions ELSE DEFAULT_EXAM_QUESTIONS
        resolved_time == IF time_limit_seconds # NoneInt THEN time_limit_seconds
                         ELSE MODE_TIME_LIMITS(mode)
    IN  IF ~generated.ok THEN generated
        ELSE LET question == generated.value
             IN  Return([
                   exam_data |->
                     [topic              |-> topic,
                      difficulty         |-> difficulty,
                      question_type      |-> question_type,
                      category           |-> category,
                      mode               |-> mode,
                      time_limit_seconds |-> resolved_time,
                      hints_used         |-> 0,
                      total_questions    |-> num_q,
                      current_index      |-> 0,
                      score_total        |-> 0,
                      status             |-> "in_progress",
                      questions          |-> <<PendingRecord(question)>>],
                   response |->
                     [exam_id            |-> exam_id,
                      total_questions    |-> num_q,
                      current_index      |-> 1,
                      mode               |-> mode,
                      time_limit_seconds |-> resolved_time,
                      question |-> _sanitize_question(question, question_type, category)],
                   trace |-> [previous_questions |-> <<>>]])

(***************************************************************************)
(* ExamService.submit_answer                                               *)
(***************************************************************************)
\* index of the last record with pending = True, 0 when there is none
LastPendingIndex(questions_list) ==
    LET idx == {i \in 1..Len(questions_list) : Get(questions_list[i], "pending", FALSE)}
    IN  IF idx = {} THEN 0 ELSE CHOOSE i \in idx : \A j \in idx : j <= i

\* variant: the rescaled score is truncated, not rounded
PenalisedScore_Truncated(score, question_hints) ==
    IF Len(question_hints) > 0
    THEN 10 * ((score * Max(0, 100 - Len(question_hints) * HINT_PENALTY_PER_HINT))
                  \div 1000)
    ELSE score

\* the hint penalty: the score is rescaled and rounded only when the record
\* has hints
PenalisedScore(score, question_hints) ==
    IF Len(question_hints) > 0
    THEN 10 * RoundHalfEven(
                 score * Max(0, 100 - Len(question_hints) * HINT_PENALTY_PER_HINT),
                 1000)
    ELSE score

\* variant: the grade is merged into the pending record without clearing
\* its pending flag
GradedRecord_StillPending(pending_q, answer, score, grade_result) ==
    [k \in DOMAIN pending_q \cup {"hints", "student_answer", "score"} |->
        CASE k = "hints"          -> Get(pending_q, "hints", <<>>)
          [] k = "student_answer" -> answer
          [] k = "score"          -> score
          [] OTHER                -> pending_q[k]]

\* variant: the graded record starts with an empty hint list
GradedRecord_DropsHints(pending_q, answer, score, grade_result) ==
    [pending        |-> FALSE,
     question_text  |-> pending_q.question_text,
     correct_answer |-> pending_q.correct_answer,
     explanation    |-> Get(pending_q, "explanation", ""),
     options        |-> Get(pending_q, "options", NoneStr),
     hints          |-> <<>>,
     student_answer |-> answer,
     score          |-> score,
     is_correct     |-> Get(grade_result, "passed", FALSE),
     feedback       |-> Get(grade_result, "feedback", <<>>),
     encouragement  |-> Get(grade_result, "encouragement", <<>>)]

\* the graded record that replaces the pending one
GradedRecord(pending_q, answer, score, grade_result) ==
    [pending        |-> FALSE,
     question_text  |-> pending_q.question_text,
     correct_answer |-> pending_q.correct_answer,
     explanation    |-> Get(pending_q, "explanation", ""),
     options        |-> Get(pending_q, "options", NoneStr),
     hints          |-> Get(pending_q, "hints", <<>>),
     student_answer |-> answer,
     score          |-> score,
     is_correct     |-> Get(grade_result, "passed", FALSE),
     feedback       |-> Get(grade_result, "feedback", <<>>),
     encouragement  |-> Get(grade_result, "encouragement", <<>>)]

\* variant: stores the 1-based position that the response shows
NewIndex_OneBased(current_index) == current_index + 2

\* the index stored by a submit: one more question is answered
NewIndex(current_index) == current_index + 1

\* variant: strict comparison
ExamCompleted_OneEarly(new_index, total_questions) == new_index + 1 >= total_questions

ExamCompleted_Strict(new_index, total_questions) == new_index > total_questions

\* is the exam finished once new_index questions are answered?
ExamCompleted(new_index, total_questions) == new_index >= total_questions

\* variant: no test of the status
submit_answer_checks_NoStatus(store, exam_id) ==
    IF exam_id \notin DOMAIN store THEN Raise("ExamNotFound")
    ELSE IF LastPendingIndex(store[exam_id].questions) = 0 THEN Raise("NoPendingQuestion")
    ELSE Return(LastPendingIndex(store[exam_id].questions))

\* variant: the pending record is looked for before the status is tested
submit_answer_checks_PendingFirst(store, exam_id) ==
    IF exam_id \notin DOMAIN store THEN Raise("ExamNotFound")
    ELSE IF LastPendingIndex(store[exam_id].questions) = 0 THEN Raise("NoPendingQuestion")
    ELSE IF store[exam_id].status = "completed" THEN Raise("ExamAlreadyCompleted")
    ELSE Return(LastPendingIndex(store[exam_id].questions))

\* the checks that open submit_answer, in the order of the code; the value
\* is the index of the pending record
submit_answer_checks(store, exam_id) ==
    IF exam_id \notin DOMAIN store THEN Raise("ExamNotFound")
    ELSE IF store[exam_id].status = "completed" THEN Raise("ExamAlreadyCompleted")
    ELSE IF LastPendingIndex(store[exam_id].questions) = 0 THEN Raise("NoPendingQuestion")
    ELSE Return(LastPendingIndex(store[exam_id].questions))

\* variant: the record that was just graded is left out of the history
prev_questions_BeforeGrading(questions_list) ==
    LET done == SelectSeq(questions_list, LAMBDA q : ~Get(q, "pending", FALSE))
    IN  [i \in 1..(Len(done) - 1) |-> done[i].question_text]

\* the history given to the generator for the next question: the text of
\* every record of the list that is not pending
prev_questions(questions_list) ==
    LET done == SelectSeq(questions_list, LAMBDA q : ~Get(q, "pending", FALSE))
    IN  [i \in 1..Len(done) |-> done[i].question_text]

\* the whole handler.  grade_result is what the awaited _grade_answer call
\* returned and generated what the awaited generate_question call returned
\* or raised; neither is used when the handler does not reach the call.
submit_answer(store, exam_id, answer, grade_result, generated) ==
    LET checks == submit_answer_checks(store, exam_id)
    IN  IF ~checks.ok THEN checks
        ELSE
        LET exam == store[exam_id]
            pending_idx == checks.value
            pending_q == exam.questions[pending_idx]
            question_text == pending_q.question_text
            correct_answer == pending_q.correct_answer
            question_hints == Get(pending_q, "hints", <<>>)
            score == PenalisedScore(Get(grade_result, "score", 0), question_hints)
            is_correct == Get(grade_result, "passed", FALSE)
            graded == [exam.questions EXCEPT
                          ![pending_idx] = GradedRecord(pending_q, answer, score, grade_result)]
            new_index == NewIndex(exam.current_index)
            new_score == exam.score_total + score
            exam_completed == ExamCompleted(new_index, exam.total_questions)
            response == [is_correct      |-> is_correct,
                         score           |-> score,
                         feedback        |-> Get(grade_result, "feedback", <<>>),
                         correct_answer  |-> correct_answer,
                         encouragement   |-> Get(grade_result, "encouragement", <<>>),
                         exam_completed  |-> exam_completed,
                         current_index   |-> IF ~exam_completed THEN new_index + 1
                                             ELSE new_index,
                         total_questions |-> exam.total_questions,
                         score_so_far    |-> new_score]
            answered == SelectSeq([i \in 1..Len(graded) |-> graded[i]],
                                  LAMBDA q : ~Get(q, "pending", FALSE))
            trace == [grade_result |-> grade_result, pending_idx |-> pending_idx]
        IN  IF exam_completed
            THEN Return([
                   update_data |-> [questions     |-> graded,
                                    current_index |-> new_index,
                                    score_total   |-> new_score,
                                    status        |-> "completed",
                                    completed_at  |-> "completed"],
                   response |-> response @@
                     [exam_summary |-> _build_summary(exam_id, exam, answered, new_score)],
                   trace |-> trace])
            ELSE IF ~generated.ok THEN generated
            ELSE Return([
                   update_data |-> [questions     |-> Append(graded, PendingRecord(generated.value)),
                                    current_index |-> new_index,
                                    score_total   |-> new_score],
                   response |-> response @@
                     [next_question |-> _sanitize_question(generated.value,
                                           exam.question_type, exam.category)],
                   trace |-> trace @@ [previous_questions |-> prev_questions(graded)]])

\* variant: the row is read again, under a lock, when the call writes
submit_answer_from_Locked(snapshot, store, exam_id, answer, grade_result, generated) == submit_answer(store, exam_id, answer, grade_result, generated)

\* submit_answer of a call that read the row `snapshot` of its session at
\* the start and writes after its awaited calls, when the table has become
\* `store`: every value it writes was computed from the row it read
submit_answer_from(snapshot, store, exam_id, answer, grade_result, generated) == submit_answer([store EXCEPT ![exam_id] = snapshot], exam_id, answer, grade_result, generated)

\* does submit_answer, its checks passed, go on to generate a question?
GeneratesNext(store, exam_id) ==
    ~ExamCompleted(NewIndex(store[exam_id].current_index), store[exam_id].total_questions)

(***************************************************************************)
(* HintService.get_hint                                                    *)
(***************************************************************************)
\* index of the first record with pending = True, 0 when there is none
FirstPendingIndex(questions) ==
    LET idx == {i \in 1..Len(questions) : Get(questions[i], "pending", FALSE)}
    IN  IF idx = {} THEN 0 ELSE CHOOSE i \in idx : \A j \in idx : i <= j

\* variant: the limit is tested against the hints already issued
HintAllowed_OffByOne(hint_number) == hint_number - 1 <= MAX_HINTS_PER_QUESTION

\* may one more hint be issued when hint_number - 1 were issued already?
HintAllowed(hint_number) == hint_number <= MAX_HINTS_PER_QUESTION

\* variant: no test of the mode
get_hint_checks_AnyMode(store, exam_id) ==
    IF exam_id \notin DOMAIN store THEN Raise("ExamNotFound")
    ELSE IF store[exam_id].status # "in_progress" THEN Raise("ExamNotInProgress")
    ELSE IF FirstPendingIndex(store[exam_id].questions) = 0 THEN Raise("NoPendingQuestion")
    ELSE Return(FirstPendingIndex(store[exam_id].questions))

\* the checks that open get_hint, in the order of the code; the value is the
\* index of the pending record
get_hint_checks(store, exam_id) ==
    IF exam_id \notin DOMAIN store THEN Raise("ExamNotFound")
    ELSE IF store[exam_id].status # "in_progress" THEN Raise("ExamNotInProgress")
    ELSE IF store[exam_id].mode = "timed" THEN Raise("HintsDisabledForMode")
    ELSE IF FirstPendingIndex(store[exam_id].questions) = 0 THEN Raise("NoPendingQuestion")
    ELSE Return(FirstPendingIndex(store[exam_id].questions))

\* variant: the session's counter is set to the number of hints of the
\* pending record
get_hint_CountsRecord(store, exam_id, out) ==
    LET checks == get_hint_checks(store, exam_id)
    IN  IF ~checks.ok THEN checks
        ELSE
        LET exam == store[exam_id]
            pending_idx == checks.value
            pending == exam.questions[pending_idx]
            question_hints == Get(pending, "hints", <<>>)
            hint_number == Len(question_hints) + 1
            hint_text == _generate_hint(out, hint_number)
            new_hints == Append(question_hints, hint_text)
            new_pending == [k \in DOMAIN pending \cup {"hints"} |->
                               IF k = "hints" THEN new_hints ELSE pending[k]]
            total_hints == hint_number
        IN  IF ~HintAllowed(hint_number) THEN Raise("HintsExhausted")
            ELSE Return([
                   update_data |-> [questions  |-> [exam.questions EXCEPT
                                                       ![pending_idx] = new_pending],
                                    hints_used |-> total_hints],
                   response |-> [hint          |-> hint_text,
                                 hints_used    |-> total_hints,
                                 score_penalty |-> hint_number * HINT_PENALTY_PER_HINT],
                   trace |-> [out |-> out, hint_number |-> hint_number]])

\* the whole handler; out is the outcome of the language-model call
get_hint(store, exam_id, out) ==
    LET checks == get_hint_checks(store, exam_id)
    IN  IF ~checks.ok THEN checks
        ELSE
        LET exam == store[exam_id]
            pending_idx == checks.value
            pending == exam.questions[pending_idx]
            question_hints == Get(pending, "hints", <<>>)
            hint_number == Len(question_hints) + 1
            hint_text == _generate_hint(out, hint_number)
            new_hints == Append(question_hints, hint_text)
            new_pending == [k \in DOMAIN pending \cup {"hints"} |->
                               IF k = "hints" THEN new_hints ELSE pending[k]]
            total_hints == exam.hints_used + 1
        IN  IF ~HintAllowed(hint_number) THEN Raise("HintsExhausted")
            ELSE Return([
                   update_data |-> [questions  |-> [exam.questions EXCEPT
                                                       ![pending_idx] = new_pending],
                                    hints_used |-> total_hints],
                   response |-> [hint          |-> hint_text,
                                 hints_used    |-> total_hints,
                                 \* round(hint_number * 0.15, 2), in hundredths
                                 score_penalty |-> hint_number * HINT_PENALTY_PER_HINT],
                   trace |-> [out |-> out, hint_number |-> hint_number]])

\* get_hint of a call that read the row `snapshot` of its session at the
\* start and writes after the awaited hint call, when the table has become
\* `store`: the record list and the counter it writes were computed from the
\* row it read
get_hint_from(snapshot, store, exam_id, out) == get_hint([store EXCEPT ![exam_id] = snapshot], exam_id, out)

(***************************************************************************)
(* ExamService.get_exam and get_all_exams (read only)                      *)
(***************************************************************************)
get_exam(store, exam_id) ==
    IF exam_id \notin DOMAIN store THEN Raise("ExamNotFound")
    ELSE LET exam == store[exam_id]
         IN  Return([exam_id         |-> exam_id,
                     topic           |-> exam.topic,
                     difficulty      |-> exam.difficulty,
                     question_type   |-> exam.question_type,
                     category        |-> exam.category,
                     mode            |-> exam.mode,
                     total_questions |-> exam.total_questions,
                     current_index   |-> exam.current_index,
                     score_total     |-> exam.score_total,
                     hints_used      |-> exam.hints_used,
                     status          |-> exam.status,
                     questions       |-> [i \in 1..Len(exam.questions) |->
                                            _redact_question(exam.questions[i])],
                     created_at      |-> exam.created_at,
                     completed_at    |-> exam.completed_at])

\* one summary per stored session (a function of the identifier here, the
\* order by creation time is not modelled)
get_all_exams(store) ==
    [i \in DOMAIN store |->
        LET e == store[i]
        IN  [exam_id         |-> i,
             topic           |-> e.topic,
             difficulty      |-> e.difficulty,
             question_type   |-> e.question_type,
             category        |-> e.category,
             mode            |-> e.mode,
             total_questions |-> e.total_questions,
             score_total     |-> e.score_total,
             hints_used      |-> e.hints_used,
             status          |-> e.status,
             percentage      |-> IF e.total_questions > 0
                                 THEN RoundHalfEven(e.score_total, e.total_questions)
                                 ELSE 0,
             grade_letter    |-> IF e.total_questions > 0
                                 THEN _score_to_grade(e.score_total, 10 * e.total_questions)
                                 ELSE _score_to_grade(0, 1),
             created_at      |-> e.created_at,
             completed_at    |-> e.completed_at]]

(***************************************************************************)
(* Inputs: requests and language-model outcomes, from bounded sets         *)
(***************************************************************************)
\* identifiers: uuid4 values given to created sessions, and one that no
\* session ever gets
ExamIds == {"exam-1"}
RequestIds == ExamIds \cup {"exam-unknown"}

\* (question_type, mode) of the start_exam requests
StartRequests ==
    {[question_type |-> "written",         mode |-> "practice"],
     [question_type |-> "multiple_choice", mode |-> "mock"],
     [question_type |-> "written",         mode |-> "timed"],
     [question_type |-> "multiple_choice", mode |-> "timed"]}

\* student answers
Answers == {<<" ", "b">>, <<"x">>}

\* JSON objects the generation pipeline and the direct gateway call may
\* produce (either may carry keys the payload does not have)
CrewData ==
    {[question_text |-> "Q2", correct_answer |-> <<"b", " ", "c">>, explanation |-> "E2",
      code_snippet |-> "code", solution |-> <<"b", " ", "c">>]}

GatewayData ==
    {[question_text |-> "Q1", correct_answer |-> <<"B">>, explanation |-> "E1",
      options |-> "ABCD", answer |-> <<"B">>]}

Json(d) == [kind |-> "json", data |-> d]
CallError == [kind |-> "error"]
NoJson == [kind |-> "nojson"]

\* a script: n failed attempts of one kind, then one outcome for every
\* attempt that is left (only the first of them is read)
Script(fail, n, final) ==
    [i \in 1..MAX_RETRIES |-> IF i <= n THEN fail ELSE final]

\* failures of one gateway call, the last an object that fails the
\* validation of the fallback
GenFailures == {CallError, NoJson, Json([question_text |-> "Q3"])}

FallbackScripts ==
    {Script(f, n, Json(d)) : f \in GenFailures, n \in 0..MAX_RETRIES, d \in GatewayData}

GenScripts ==
    {[crew |-> Json(d), fallback |-> Script(CallError, MAX_RETRIES, CallError)] :
        d \in CrewData}
    \cup {[crew |-> c, fallback |-> fs] : c \in {CallError, NoJson}, fs \in FallbackScripts}

\* JSON objects a grading call may produce
GradeData ==
    {[score |-> 725, feedback |-> <<"fb">>, encouragement |-> <<"enc">>]}

GradeFailures == {CallError, NoJson, Json([feedback |-> <<"fb">>])}

GradeScripts ==
    {Script(f, n, Json(d)) : f \in GradeFailures, n \in 0..MAX_RETRIES, d \in GradeData}

\* outcomes of the hint call: the HTTP call raises and _generate_hint
\* returns the fallback hint of the hint number (the text of a hint plays no
\* part in the checks of get_hint and submit_answer)
HintOutcomes == {CallError}

(***************************************************************************)
(* State                                                                   *)
(***************************************************************************)
VARIABLES
    exams,            \* the exams table: identifier -> row
    last,             \* the last call: operation, identifier, outcome, response
    questions_table,  \* the questions table: rows in insertion order
    submit_calls      \* submit_answer calls that have read their session and
                      \* not written yet, and the calls that have finished

vars == <<exams, last, questions_table, submit_calls>>


NoResponse == [none |-> TRUE]

Outcome(op, exam_id, result) ==
    [op       |-> op,
     exam_id  |-> exam_id,
     ok       |-> result.ok,
     error    |-> IF result.ok THEN "" ELSE result.error,
     response |-> IF result.ok THEN result.value.response ELSE NoResponse,
     trace    |-> IF result.ok /\ "trace" \in DOMAIN result.value
                  THEN result.value.trace ELSE NoResponse]

Init ==
    /\ exams = [i \in {} |-> NoResponse]
    /\ last = [op |-> "init", exam_id |-> "", ok |-> TRUE, error |-> "",
               response |-> NoResponse, trace |-> NoResponse]
    /\ questions_table = <<>>
    /\ submit_calls = [c \in {} |-> NoResponse]

(***************************************************************************)
(* The routes: what status the caller of a handler receives                *)
(***************************************************************************)
\* the errors of the services that are raised as ValueError
ValueErrors ==
    {"ExamNotFound", "ExamAlreadyCompleted", "NoPendingQuestion", "GenerationFailed",
     "ExamNotInProgress", "HintsDisabledForMode", "HintsExhausted"}

\* the status code of the response: 200 when the service call returned,
\* else the code of the except clause of the route that catches the error
status_code(op, ok, error) ==
    IF ok THEN 200
    ELSE CASE op = "start_exam"    -> 500
           [] op = "submit_answer" -> IF error \in ValueErrors THEN 404 ELSE 500
           [] op = "get_hint"      -> IF error \in ValueErrors THEN 400 ELSE 500
           [] op = "get_exam"      -> 404
           [] OTHER                -> 500

(***************************************************************************)
(* Actions: one per handler                                                *)
(***************************************************************************)
\* what the awaited generate_question call may return or raise, the
\* language-model outcomes being drawn from gen_scripts
GenerateCallFrom(gen_scripts, topic, difficulty, question_type, category) ==
    {generate_question(g, topic, difficulty, question_type, category) : g \in gen_scripts}

\* what the awaited _grade_answer call may return for the pending question,
\* the language-model outcomes being drawn from grade_scripts
GradeCallFrom(grade_scripts, store, exam_id, answer) ==
    LET exam == store[exam_id]
        pending_q == exam.questions[LastPendingIndex(exam.questions)]
    IN  {_grade_answer(pending_q.question_text, pending_q.correct_answer, answer,
                       exam.question_type, s) : s \in grade_scripts}

\* the start_exam route, for requests and generator outcomes of given sets
StartExamFrom(sizes, requests, gen_scripts) ==
    \E exam_id \in ExamIds \ DOMAIN exams,
       topic \in {"algorithms"}, difficulty \in {"easy"}, category \in {"concept"},
       num_questions \in sizes, req \in requests,
       time_limit_seconds \in {NoneInt} :
      \E generated \in GenerateCallFrom(gen_scripts, topic, difficulty,
                                        req.question_type, category) :
        LET result == start_exam(exam_id, generated, topic, difficulty, num_questions,
                                 req.question_type, category, req.mode, time_limit_seconds)
        IN  /\ exams' = IF result.ok
                        THEN ExamRepository_create(exams, exam_id, result.value.exam_data)
                        ELSE exams
            /\ last' = Outcome("start_exam", exam_id, result)
            /\ questions_table' = generate_question_saves(questions_table, generated)
            /\ UNCHANGED submit_calls

StartExam == StartExamFrom(1..MaxQuestions, StartRequests, GenScripts)

\* variant: the graded record is stored as soon as the answer is graded,
\* before the next question is generated
SubmitAnswerFrom_SavesGradeFirst(answers, grade_scripts, gen_scripts) ==
    \E exam_id \in RequestIds, answer \in answers :
      IF ~submit_answer_checks(exams, exam_id).ok
      THEN /\ exams' = exams
           /\ last' = Outcome("submit_answer", exam_id,
                              submit_answer(exams, exam_id, answer, NoResponse, NoResponse))
           /\ UNCHANGED <<questions_table, submit_calls>>
      ELSE \E grade_result \in GradeCallFrom(grade_scripts, exams, exam_id, answer) :
           \E generated \in GenerateCallFrom(gen_scripts, exams[exam_id].topic,
                                             exams[exam_id].difficulty,
                                             exams[exam_id].question_type,
                                             exams[exam_id].category) :
             LET result == submit_answer(exams, exam_id, answer, grade_result, generated)
                 idx == submit_answer_checks(exams, exam_id).value
                 pending_q == exams[exam_id].questions[idx]
                 score == PenalisedScore(Get(grade_result, "score", 0),
                                         Get(pending_q, "hints", <<>>))
                 graded == [exams[exam_id].questions EXCEPT
                              ![idx] = GradedRecord(pending_q, answer, score, grade_result)]
             IN  /\ exams' = IF result.ok
                             THEN ExamRepository_update(exams, exam_id,
                                                        result.value.update_data)
                             ELSE ExamRepository_update(exams, exam_id,
                                                        [questions |-> graded])
                 /\ last' = Outcome("submit_answer", exam_id, result)
                 /\ questions_table' =
                      IF GeneratesNext(exams, exam_id)
                      THEN generate_question_saves(questions_table, generated)
                      ELSE questions_table
                 /\ UNCHANGED submit_calls

\* the submit_answer route, for answers and model outcomes of given sets
SubmitAnswerFrom(answers, grade_scripts, gen_scripts) ==
    \E exam_id \in RequestIds, answer \in answers :
      IF ~submit_answer_checks(exams, exam_id).ok
      THEN /\ exams' = exams
           /\ last' = Outcome("submit_answer", exam_id,
                              submit_answer(exams, exam_id, answer, NoResponse, NoResponse))
           /\ UNCHANGED <<questions_table, submit_calls>>
      ELSE \E grade_result \in GradeCallFrom(grade_scripts, exams, exam_id, answer) :
           \E generated \in GenerateCallFrom(gen_scripts, exams[exam_id].topic,
                                             exams[exam_id].difficulty,
                                             exams[exam_id].question_type,
                                             exams[exam_id].category) :
             LET result == submit_answer(exams, exam_id, answer, grade_result, generated)
             IN  /\ exams' = IF result.ok
                             THEN ExamRepository_update(exams, exam_id,
                                                        result.value.update_data)
                             ELSE exams
                 /\ last' = Outcome("submit_answer", exam_id, result)
                 /\ questions_table' =
                      IF GeneratesNext(exams, exam_id)
                      THEN generate_question_saves(questions_table, generated)
                      ELSE questions_table
                 /\ UNCHANGED submit_calls

SubmitAnswer == SubmitAnswerFrom(Answers, GradeScripts, GenScripts)

\* the hint route, for outcomes of the language-model call of a given set
GetHintFrom(outcomes) ==
    \E exam_id \in RequestIds, out \in outcomes :
      LET result == get_hint(exams, exam_id, out)
      IN  /\ exams' = IF result.ok
                      THEN ExamRepository_update(exams, exam_id, result.value.update_data)
                      ELSE exams
          /\ last' = Outcome("get_hint", exam_id, result)
          /\ UNCHANGED <<questions_table, submit_calls>>

GetHint == GetHintFrom(HintOutcomes)

\* get_exam and get_all_exams read the table and write nothing; what they
\* return is get_exam(exams, exam_id) and get_all_exams(exams) of the state
GetExam ==
    \E exam_id \in RequestIds :
      /\ get_exam(exams, exam_id).ok \in BOOLEAN
      /\ UNCHANGED vars

ListExams ==
    /\ DOMAIN get_all_exams(exams) = DOMAIN exams
    /\ UNCHANGED vars

Next ==
    \/ StartExam
    \/ SubmitAnswer
    \/ GetHint
    \/ GetExam
    \/ ListExams

Spec == Init /\ [][Next]_vars

(***************************************************************************)
(* Properties                                                              *)
(***************************************************************************)
Pending(q) == Get(q, "pending", FALSE)
PendingSet(qs) == {i \in 1..Len(qs) : Pending(qs[i])}
AnsweredSet(qs) == {i \in 1..Len(qs) : ~Pending(qs[i])}
Hints(q) == Get(q, "hints", <<>>)

SubmitOk == last.op = "submit_answer" /\ last.ok
StartOk == last.op = "start_exam" /\ last.ok

\* C1: at most one record of a session is pending; while the session is
\* in_progress exactly one is, and it is the last of the sequence; right
\* after start_exam the sequence is one pending record; right after a
\* non-final submit_answer the only pending record is the one appended after
\* the record that was graded.
C1_OnePendingRecord ==
    /\ \A id \in DOMAIN exams :
         LET qs == exams[id].questions
         IN  /\ Cardinality(PendingSet(qs)) <= 1
             /\ exams[id].status = "in_progress" => PendingSet(qs) = {Len(qs)}
    /\ StartOk =>
         LET qs == exams[last.exam_id].questions
         IN  Len(qs) = 1 /\ Pending(qs[1])
    /\ (SubmitOk /\ ~last.response.exam_completed) =>
         LET qs == exams[last.exam_id].questions
         IN  /\ PendingSet(qs) = {Len(qs)}
             /\ Len(qs) = last.trace.pending_idx + 1

C1_Witness ==
    /\ SubmitOk
    /\ ~last.response.exam_completed
    /\ Len(exams[last.exam_id].questions) = 2
    /\ PendingSet(exams[last.exam_id].questions) = {2}

\* C2: the stored current_index is the number of records that are not
\* pending.
C2_IndexCountsAnswered ==
    \A id \in DOMAIN exams :
        exams[id].current_index = Cardinality(AnsweredSet(exams[id].questions))

C2_Witness ==
    \E id \in DOMAIN exams :
        /\ exams[id].current_index = 1
        /\ PendingSet(exams[id].questions) = {2}

\* C3: status is completed exactly when current_index = total_questions, a
\* completed session has no pending record, and current_index never exceeds
\* total_questions.
C3_CompletedIffAllAnswered ==
    \A id \in DOMAIN exams :
        /\ exams[id].status = "completed"
             <=> exams[id].current_index = exams[id].total_questions
        /\ exams[id].status = "completed" => PendingSet(exams[id].questions) = {}
        /\ exams[id].current_index <= exams[id].total_questions

C3_Witness ==
    \E id \in DOMAIN exams :
        /\ exams[id].status = "completed"
        /\ exams[id].total_questions = 2
        /\ exams[id].current_index = 2

\* the keys a question sent to the client may carry
ClientQuestionKeys ==
    {"question_text", "question_type", "category", "topic", "difficulty",
     "options", "code_snippet"}

\* a question payload that gives away neither the answer nor the explanation
\* of the record rec
Withheld(payload, rec) ==
    /\ "correct_answer" \notin DOMAIN payload
    /\ "explanation" \notin DOMAIN payload
    /\ DOMAIN payload \subseteq ClientQuestionKeys
    /\ rec.explanation # "" => \A k \in DOMAIN payload : payload[k] # rec.explanation

\* C4: the question returned by start_exam and the next_question returned by
\* submit_answer carry neither the correct answer nor the explanation of the
\* question they present, which is pending.
C4_AnswerWithheld ==
    /\ StartOk =>
         LET qs == exams[last.exam_id].questions
         IN  Pending(qs[Len(qs)]) /\ Withheld(last.response.question, qs[Len(qs)])
    /\ (SubmitOk /\ "next_question" \in DOMAIN last.response) =>
         LET qs == exams[last.exam_id].questions
         IN  Pending(qs[Len(qs)]) /\ Withheld(last.response.next_question, qs[Len(qs)])

C4_Witness ==
    /\ SubmitOk
    /\ "next_question" \in DOMAIN last.response
    /\ LET qs == exams[last.exam_id].questions
       IN  /\ qs[Len(qs)].correct_answer # <<>>
           /\ qs[Len(qs)].explanation # ""
           /\ "code_snippet" \in DOMAIN last.response.next_question

\* C5: get_exam shows of a pending record exactly pending, question_text and
\* options; the correct answer of a record appears in a start_exam,
\* submit_answer or get_exam response only once that record is graded (the
\* graded record and the summary of a submit_answer, the answered records of
\* get_exam), never while it is pending.  get_exam and get_all_exams write
\* nothing (the GetExam and ListExams actions).
C5_PendingRedacted ==
    /\ \A id \in DOMAIN exams :
         LET qs == exams[id].questions
             shown == get_exam(exams, id).value.questions
         IN  /\ Len(shown) = Len(qs)
             /\ \A i \in 1..Len(qs) :
                  /\ Pending(qs[i]) =>
                       /\ DOMAIN shown[i] = {"pending", "question_text", "options"}
                       /\ shown[i].pending
                       /\ shown[i].question_text = qs[i].question_text
                       /\ shown[i].options = Get(qs[i], "options", NoneStr)
                  /\ "correct_answer" \in DOMAIN shown[i] => ~Pending(qs[i])
    /\ StartOk =>
         /\ "correct_answer" \notin DOMAIN last.response
         /\ "correct_answer" \notin DOMAIN last.response.question
    /\ SubmitOk =>
         LET qs == exams[last.exam_id].questions
             graded == last.trace.pending_idx
         IN  /\ ~Pending(qs[graded])
             /\ last.response.correct_answer = qs[graded].correct_answer
             /\ "next_question" \in DOMAIN last.response =>
                  "correct_answer" \notin DOMAIN last.response.next_question
             /\ "exam_summary" \in DOMAIN last.response =>
                  /\ PendingSet(qs) = {}
                  /\ Len(last.response.exam_summary.questions) = Len(qs)

C5_Witness ==
    \E id \in DOMAIN exams :
        LET qs == exams[id].questions
            shown == get_exam(exams, id).value.questions
        IN  /\ Len(qs) = 2
            /\ ~Pending(qs[1]) /\ Pending(qs[2])
            /\ qs[2].correct_answer # <<>>
            /\ shown[1].correct_answer = qs[1].correct_answer

\* C6: completed is absorbing.  From a state in which a session is
\* completed, every step leaves the row of the session as it is, a
\* submit_answer on it fails (ExamAlreadyCompleted) and a get_hint on it
\* fails (ExamNotInProgress).
C6_CompletedAbsorbing ==
    [][\A id \in DOMAIN exams :
          exams[id].status = "completed" =>
            /\ id \in DOMAIN exams'
            /\ exams'[id] = exams[id]
            /\ (last'.op = "submit_answer" /\ last'.exam_id = id) =>
                 (~last'.ok /\ last'.error = "ExamAlreadyCompleted")
            /\ (last'.op = "get_hint" /\ last'.exam_id = id) =>
                 (~last'.ok /\ last'.error = "ExamNotInProgress")]_vars

C6_Witness ==
    /\ last.op = "get_hint"
    /\ last.error = "ExamNotInProgress"
    /\ exams[last.exam_id].status = "completed"
    /\ exams[last.exam_id].completed_at # NoneStr

\* C7: submit_answer fails with ExamNotFound when the identifier matches no
\* session, else with ExamAlreadyCompleted when the session is completed,
\* else with NoPendingQuestion when no record is pending; such a call made
\* no grading or generation call and leaves the table as it was.
C7_SubmitFailures ==
    [][last'.op = "submit_answer" =>
         LET id == last'.exam_id
         IN  /\ id \notin DOMAIN exams =>
                  (~last'.ok /\ last'.error = "ExamNotFound")
             /\ (id \in DOMAIN exams /\ exams[id].status = "completed") =>
                  (~last'.ok /\ last'.error = "ExamAlreadyCompleted")
             /\ (/\ id \in DOMAIN exams
                 /\ exams[id].status # "completed"
                 /\ PendingSet(exams[id].questions) = {}) =>
                  (~last'.ok /\ last'.error = "NoPendingQuestion")
             /\ last'.error \in {"ExamNotFound", "ExamAlreadyCompleted", "NoPendingQuestion"} =>
                  (exams' = exams /\ last'.trace = NoResponse)]_vars

C7_Witness ==
    /\ last.op = "submit_answer"
    /\ last.error = "ExamAlreadyCompleted"
    /\ PendingSet(exams[last.exam_id].questions) = {}

\* the score of the graded record, the score the grader gave and the number
\* of hints of the record, for the submit_answer that last succeeded
GradedScore == exams[last.exam_id].questions[last.trace.pending_idx].score
RawScore == last.trace.grade_result.score
HintsOfGraded == Len(Hints(exams[last.exam_id].questions[last.trace.pending_idx]))

\* round(raw * max(0, 1 - 0.15 * min(h, 3)), 1)
RoundedPenalty(raw, h) == 10 * RoundHalfEven(raw * Max(0, 100 - 15 * Min(h, 3)), 1000)

HintTarget(store, id) == store[id].questions[FirstPendingIndex(store[id].questions)]

C10_HintFailures ==
    [][/\ last'.op = "get_hint" =>
            LET id == last'.exam_id
            IN  /\ (id \in DOMAIN exams /\ exams[id].status # "in_progress") =>
                     (~last'.ok /\ last'.error = "ExamNotInProgress")
                /\ (/\ id \in DOMAIN exams
                    /\ exams[id].status = "in_progress"
                    /\ exams[id].mode = "timed") =>
                     (~last'.ok /\ last'.error = "HintsDisabledForMode")
                /\ (/\ id \in DOMAIN exams
                    /\ exams[id].status = "in_progress"
                    /\ exams[id].mode # "timed"
                    /\ PendingSet(exams[id].questions) = {}) =>
                     (~last'.ok /\ last'.error = "NoPendingQuestion")
                /\ ~last'.ok => exams' = exams
       /\ \A id \in DOMAIN exams' :
            exams'[id].mode = "timed" =>
              /\ exams'[id].hints_used = 0
              /\ \A i \in 1..Len(exams'[id].questions) :
                   Hints(exams'[id].questions[i]) = <<>>]_vars

C10_Witness ==
    /\ last.op = "get_hint"
    /\ last.error = "HintsDisabledForMode"
    /\ exams[last.exam_id].mode = "timed"
    /\ exams[last.exam_id].current_index = 1

(***************************************************************************)
(* Hint issuing under every outcome of the language-model call             *)
(***************************************************************************)
\* outcomes of the hint call: the call raised (timeout, connection error,
\* HTTP error status, body that is not JSON); the text holds a flat JSON
\* object with a hint key; one without it; no JSON object at all
HintOutcomesAll ==
    {CallError,
     [kind |-> "json", data |-> [hint |-> "H"], raw |-> "R1"],
     [kind |-> "json", data |-> [note |-> "N"], raw |-> "R2"],
     [kind |-> "nojson", raw |-> "T"]}

\* the generator outcomes of the sessions with hints: the pipeline answers
HintGenScripts == {[crew |-> Json(d), fallback |-> Script(CallError, MAX_RETRIES, CallError)] : d \in CrewData}

\* sessions that allow hints, of one or two questions
HintNext ==
    \/ StartExamFrom({1, 2}, {[question_type |-> "written", mode |-> "practice"]},
                     HintGenScripts)
    \/ SubmitAnswerFrom({<<"x">>}, {Script(CallError, 0, Json(d)) : d \in GradeData},
                        HintGenScripts)
    \/ GetHintFrom(HintOutcomesAll)

HintSpec == Init /\ [][HintNext]_vars

\* a get_hint step taken from a state in which the session is in_progress,
\* its mode is not timed, a record is pending and it has fewer than 3 hints
HintStepAllowed ==
    /\ last'.op = "get_hint"
    /\ last'.exam_id \in DOMAIN exams
    /\ exams[last'.exam_id].status = "in_progress"
    /\ exams[last'.exam_id].mode # "timed"
    /\ PendingSet(exams[last'.exam_id].questions) # {}
    /\ Len(Hints(HintTarget(exams, last'.exam_id))) < 3

\* the hint of the step is recorded: appended to the hints of the pending
\* record, counted in hints_used, and nothing else of the row changes
HintStepRecorded ==
    LET id == last'.exam_id
        idx == FirstPendingIndex(exams[id].questions)
        before == exams[id].questions[idx]
        after == exams'[id].questions[idx]
    IN  /\ last'.ok
        /\ Hints(after) = Append(Hints(before), last'.response.hint)
        /\ \A k \in DOMAIN before \ {"hints"} : k \in DOMAIN after /\ after[k] = before[k]
        /\ Len(exams'[id].questions) = Len(exams[id].questions)
        /\ \A i \in 1..Len(exams[id].questions) :
             i # idx => exams'[id].questions[i] = exams[id].questions[i]
        /\ exams'[id].hints_used = exams[id].hints_used + 1
        /\ last'.response.hints_used = exams'[id].hints_used
        /\ \A f \in DOMAIN exams[id] \ {"questions", "hints_used"} :
             exams'[id][f] = exams[id][f]

StudentAnswers ==
    {<<"B">>, <<"b">>, <<"x">>, <<" ">>, <<"a", " ", "c">>, <<"A", " ", "b">>}

\* a GradeRequest (its texts have at least one character)
GradeRequests ==
    {[question_type |-> t, question |-> "Q", correct_answer |-> c, student_answer |-> a,
      options |-> IF t = "multiple_choice" THEN "ABCD" ELSE NoneStr] :
        t \in {"written", "multiple_choice"}, c \in {<<"B">>, <<"a", " ", "b">>},
        a \in StudentAnswers}

\* the arguments of _grade_answer: the stored correct answer may be empty
GradeAnswerRequests ==
    GradeRequests \cup
    {[question_type |-> "written", question |-> "Q", correct_answer |-> <<>>,
      student_answer |-> a, options |-> NoneStr] : a \in StudentAnswers}

GRADING_MODES == {"crew", "single"}

\* a pipeline run of a written answer: the stages' outputs, each of which
\* may fail to parse; a grading output may also carry a score or a max_score
\* that does not convert
\* what a scoring call may say: scores inside and outside 0..10, with or
\* without a verdict and a letter of its own
ScoringData ==
    {[score |-> sc] : sc \in {-250, 499, 500, 725, 1500}}
    \cup {[score |-> sc, passed |-> pa] : sc \in {499, 725, 1500}, pa \in BOOLEAN}
    \cup {[score |-> 725, grade_letter |-> "A", feedback |-> <<"fb">>]}

\* what the feedback stage may say; it may repeat, or contradict, a score
FeedbackData ==
    {[feedback |-> <<"fb">>, strengths |-> <<"s">>],
     [feedback |-> <<"fb">>, score |-> 0, passed |-> FALSE, grade_letter |-> "F"],
     [feedback |-> <<"fb">>, score |-> 1000, passed |-> TRUE, grade_letter |-> "A"]}

ReviewData == {[encouragement |-> <<"enc">>]}

WrittenRuns ==
    {CallError}
    \cup {[kind |-> "ran", grading |-> g, feedback |-> Json(f), review |-> Json(r)] :
            g \in {Json(d) : d \in ScoringData} \cup {NoJson},
            f \in {[feedback |-> <<"fb">>, strengths |-> <<"s">>]}, r \in ReviewData}
    \cup {[kind |-> "ran", grading |-> g, feedback |-> f, review |-> r] :
            g \in {NoJson,
                   Json([score |-> 725, grade_letter |-> "B", passed |-> TRUE]),
                   Json([score |-> NonNumericScore, grade_letter |-> "F", passed |-> FALSE]),
                   Json([score |-> 200, max_score |-> NonNumericScore,
                         grade_letter |-> "F", passed |-> FALSE])},
            f \in {NoJson, Json([feedback |-> <<"fb">>, mistakes |-> <<"m">>,
                                 strengths |-> <<"s">>, recommendations |-> <<"r">>])},
            r \in {NoJson} \cup {Json(d) : d \in ReviewData}}

McqRuns ==
    {CallError}
    \cup {[kind |-> "ran", feedback |-> f, review |-> r] :
            f \in {Json(d) : d \in FeedbackData} \cup {NoJson},
            r \in {Json(d) : d \in ReviewData} \cup {NoJson}}

SinglePromptScripts ==
    {Script(f, n, Json(d)) :
        f \in GradeFailures, n \in {0, MAX_RETRIES - 1}, d \in ScoringData}
    \cup {Script(f, MAX_RETRIES, f) : f \in GradeFailures}

\* a call that is about to be made: the function and its inputs
GradeCalls ==
    {[fn |-> "grade", request |-> rq, GRADING_MODE |-> m, run |-> ru, script |-> sc] :
        rq \in {r \in GradeRequests : r.question_type = "written"}, m \in GRADING_MODES,
        ru \in WrittenRuns, sc \in SinglePromptScripts}
    \cup
    {[fn |-> "grade", request |-> rq, GRADING_MODE |-> m, run |-> ru,
      script |-> Script(CallError, MAX_RETRIES, CallError)] :
        rq \in {r \in GradeRequests : r.question_type = "multiple_choice"},
        m \in GRADING_MODES, ru \in McqRuns}

GradeAnswerCalls ==
    {[fn |-> "_grade_answer", request |-> rq, GRADING_MODE |-> m, run |-> CallError,
      script |-> sc] :
        rq \in GradeAnswerRequests, m \in {"crew"}, sc \in SinglePromptScripts}

CallRecord(call) ==
    [op |-> "call", exam_id |-> "", ok |-> TRUE, error |-> "",
     response |-> NoResponse, trace |-> call]

GraderInit ==
    /\ exams = [i \in {} |-> NoResponse]
    /\ questions_table = <<>>
    /\ submit_calls = [c \in {} |-> NoResponse]
    /\ last \in {CallRecord(c) : c \in GradeCalls \cup GradeAnswerCalls}

\* what the call gave: the result, or the error it raised
Returned(op, call, result) ==
    [op |-> op, exam_id |-> "", ok |-> result.ok,
     error |-> IF result.ok THEN "" ELSE result.error,
     response |-> IF result.ok THEN result.value ELSE NoResponse,
     trace |-> call]

Grade ==
    /\ last.op = "call"
    /\ last.trace.fn = "grade"
    /\ last' = Returned("grade",
                        last.trace @@
                          [tiers |-> IF last.trace.request.question_type = "multiple_choice"
                                     THEN <<>>
                                     ELSE _grade_written_tiers(last.trace.GRADING_MODE,
                                                               last.trace.run,
                                                               last.trace.script)],
                        grade(last.trace.request, last.trace.GRADING_MODE,
                              last.trace.run, last.trace.script))
    /\ UNCHANGED <<exams, questions_table, submit_calls>>

GradeAnswer ==
    /\ last.op = "call"
    /\ last.trace.fn = "_grade_answer"
    /\ LET rq == last.trace.request
       IN  last' = Returned("_grade_answer",
                            last.trace @@
                              [tiers |-> IF rq.question_type = "multiple_choice" THEN <<>>
                                         ELSE _grade_answer_tiers(rq.question, rq.correct_answer,
                                                                  rq.student_answer,
                                                                  last.trace.script)],
                            Return(_grade_answer(rq.question, rq.correct_answer,
                                                 rq.student_answer, rq.question_type,
                                                 last.trace.script)))
    /\ UNCHANGED <<exams, questions_table, submit_calls>>

GraderNext ==
    \/ Grade
    \/ GradeAnswer

GraderSpec == GraderInit /\ [][GraderNext]_vars

\* a grade has been returned by one of the two grading functions
Graded == last.op \in {"grade", "_grade_answer"} /\ last.ok
GradedRequest == last.trace.request
\* every single-prompt attempt of the call failed
AttemptsExhausted == ~_grade_single_prompt(last.trace.script).ok

\* C12: every score a grading path produces lies in [0.0, 10.0] (0..1000
\* hundredths), whatever number the model gave.
C12_Original ==
    Graded => (last.response.score >= 0 /\ last.response.score <= 1000)

\* C13: for every grade a grading path produces, passed is true exactly
\* when the score is at least 5.0, whatever the model gave as score and as
\* passed.
C13_Original ==
    Graded => (last.response.passed <=> last.response.score >= 500)

\* the two labels are the same letter, whatever their case
SameLabel(a, b) == lower(a) = lower(b)

\* C14: on every multiple-choice grading path the answer is correct exactly
\* when the student's label equals the correct label ignoring letter case;
\* the score is 10.0 when correct and 0.0 otherwise, the letter A or F.
C14_Original ==
    (Graded /\ GradedRequest.question_type = "multiple_choice") =>
        LET correct == SameLabel(GradedRequest.student_answer, GradedRequest.correct_answer)
        IN  /\ last.response.score = IF correct THEN 1000 ELSE 0
            /\ last.response.passed = correct
            /\ "grade_letter" \in DOMAIN last.response =>
                 last.response.grade_letter = IF correct THEN "A" ELSE "F"

\* the score, letter and verdict of two grades agree
SameVerdict(r1, r2) ==
    /\ r1.score = r2.score
    /\ r1.passed = r2.passed
    /\ Get(r1, "grade_letter", "") = Get(r2, "grade_letter", "")

\* C15: multiple-choice grading does not depend on the language model: for
\* the request of the call just made, every other behaviour of the model
\* (pipeline fails, a stage gives no JSON, the feedback contradicts the
\* score) and either grading mode gives a result, with the same score,
\* grade_letter and passed as the call just made.
C15_McqIndependentOfModel ==
    (last.op \in {"grade", "_grade_answer"}
       /\ GradedRequest.question_type = "multiple_choice") =>
        /\ last.ok
        /\ last.op = "grade" =>
             \A m \in GRADING_MODES, ru \in McqRuns :
                LET other == grade(GradedRequest, m, ru, last.trace.script)
                IN  other.ok /\ SameVerdict(other.value, last.response)
        /\ last.op = "_grade_answer" =>
             \A sc \in SinglePromptScripts :
                SameVerdict(_grade_answer(GradedRequest.question, GradedRequest.correct_answer,
                                          GradedRequest.student_answer,
                                          GradedRequest.question_type, sc),
                            last.response)

C15_Witness ==
    /\ last.op = "grade"
    /\ GradedRequest.question_type = "multiple_choice"
    /\ last.trace.GRADING_MODE = "crew"
    /\ last.trace.run.kind = "ran"
    /\ last.trace.run.feedback.kind = "json"
    /\ Get(last.trace.run.feedback.data, "score", 1000) = 0
    /\ last.response.feedback = <<"fb">>
    /\ last.response.score = 1000
    /\ last.response.grade_letter = "A"

\* W(S) /\ W(C) and the two sizes the similarity may be taken over
CommonWords(a, b) == Cardinality(words(a) \cap words(b))
LargerWordSet(a, b) == Max(Cardinality(words(a)), Cardinality(words(b)))
AllWords(a, b) == Cardinality(words(a) \cup words(b))

\* the similarity fallback was taken by the _grade_answer call just made
FellBackToSimilarity ==
    /\ last.op = "_grade_answer"
    /\ GradedRequest.question_type = "written"
    /\ \/ AttemptsExhausted
       \/ ~GradeRequestValid(GradedRequest.question, GradedRequest.correct_answer,
                             GradedRequest.student_answer)

\* C16: grading an open-ended answer never raises: GradingService.grade and
\* _grade_answer return a grade for every combination of model outcomes, and
\* when every attempt is exhausted the grade is the similarity score.
C16_Original ==
    (last.op \in {"grade", "_grade_answer"} /\ GradedRequest.question_type = "written") =>
        /\ last.ok
        /\ FellBackToSimilarity =>
             last.response.feedback[1] = "Your answer received a score of "

\* C17 as stated: the fallback score is the Jaccard overlap of the two word
\* sets, round(10 * |W(S) /\ W(C)| / |W(S) \/ W(C)|, 1).
C17_Original ==
    FellBackToSimilarity =>
        LET S == GradedRequest.student_answer
            C == GradedRequest.correct_answer
        IN  /\ last.response.score =
                 IF AllWords(S, C) = 0 THEN 0
                 ELSE 10 * RoundHalfEven(100 * CommonWords(S, C), AllWords(S, C))
            /\ last.response.passed <=> last.response.score >= 500

\* C17 amended: the fallback score is round(10 * |W(S) /\ W(C)| /
\* max(|W(S)|, |W(C)|), 1), and 0.0 when either word set is empty; passed is
\* score >= 5.0.
C17_SimilarityScore ==
    FellBackToSimilarity =>
        LET S == GradedRequest.student_answer
            C == GradedRequest.correct_answer
        IN  /\ last.response.score =
                 IF words(S) = {} \/ words(C) = {} THEN 0
                 ELSE 10 * RoundHalfEven(100 * CommonWords(S, C), LargerWordSet(S, C))
            /\ last.response.passed <=> last.response.score >= 500
            /\ last.response.score >= 0 /\ last.response.score <= 1000

C17_Witness ==
    /\ FellBackToSimilarity
    /\ AttemptsExhausted
    /\ GradedRequest.student_answer = <<"a", " ", "c">>
    /\ GradedRequest.correct_answer = <<"a", " ", "b">>
    /\ last.response.score = 500
    /\ last.response.passed

\* the inputs on which the grader leaves the stated contract
\* C12: the pipeline returns the score 15.0 that its scoring stage gave
C12_FailingInput ==
    /\ last.op = "grade" /\ last.ok
    /\ GradedRequest.question_type = "written"
    /\ last.trace.GRADING_MODE = "crew"
    /\ last.trace.run.kind = "ran"
    /\ last.trace.run.grading = Json([score |-> 1500])
    /\ last.response.score = 1500

\* C13: the single-prompt path returns passed = false with the score 7.25
C13_FailingInput ==
    /\ last.op = "_grade_answer" /\ last.ok
    /\ GradedRequest.question_type = "written"
    /\ last.trace.script[1] = Json([score |-> 725, passed |-> FALSE])
    /\ last.response.score = 725
    /\ ~last.response.passed

\* C14: GradingService.grade gives 0.0 and F to the label b when B is correct
C14_FailingInput ==
    /\ last.op = "grade" /\ last.ok
    /\ GradedRequest.question_type = "multiple_choice"
    /\ GradedRequest.student_answer = <<"b">>
    /\ GradedRequest.correct_answer = <<"B">>
    /\ last.response.score = 0
    /\ last.response.grade_letter = "F"

\* C16: GradingService.grade raises when the pipeline and every attempt fail
C16_FailingInput ==
    /\ last.op = "grade" /\ ~last.ok
    /\ last.error = "ValueError"
    /\ GradedRequest.question_type = "written"
    /\ last.trace.run.kind = "error"
    /\ AttemptsExhausted

(***************************************************************************)
(* The summary on its own: _build_summary applied to drawn totals          *)
(***************************************************************************)
SummarySizes == {1, 2, 3}

\* score totals of a session of n questions, in hundredths: the quarters of
\* a point and the values just under a whole point, without those whose
\* percentage lies exactly between two tenths
SummaryTotals(n) ==
    {t \in 0..(1000 * n) : (t % 25 = 0 \/ t % 100 = 99) /\ 2 * (t % n) # n}

SummaryCalls ==
    {[fn |-> "_build_summary", total_questions |-> n, total_score |-> t] :
        n \in SummarySizes, t \in UNION {SummaryTotals(m) : m \in SummarySizes}}

SummaryInit ==
    /\ exams = [i \in {} |-> NoResponse]
    /\ questions_table = <<>>
    /\ submit_calls = [c \in {} |-> NoResponse]
    /\ last \in {CallRecord(c) :
                   c \in {d \in SummaryCalls : d.total_score \in SummaryTotals(d.total_questions)}}

BuildSummary ==
    /\ last.op = "call"
    /\ last.trace.fn = "_build_summary"
    /\ LET exam == [topic |-> "algorithms", difficulty |-> "easy",
                    total_questions |-> last.trace.total_questions]
           \* the row of the completed session the summary is built for, and
           \* the entry get_all_exams gives for it
           row == exam @@ [question_type |-> "written", category |-> "concept",
                           mode |-> "practice", score_total |-> last.trace.total_score,
                           hints_used |-> 0, status |-> "completed",
                           created_at |-> "created", completed_at |-> "completed"]
           listed == get_all_exams([i \in {"exam-1"} |-> row])["exam-1"]
       IN  last' = Returned("_build_summary", last.trace @@ [listed |-> listed],
                            Return(_build_summary("exam-1", exam, <<>>,
                                                  last.trace.total_score)))
    /\ UNCHANGED <<exams, questions_table, submit_calls>>

SummarySpec == SummaryInit /\ [][BuildSummary]_vars

\* the letter of a percentage given in tenths of a percent
BandOf(p) ==
    CASE p >= 900 -> "A"
      [] p >= 700 /\ p < 900 -> "B"
      [] p >= 500 /\ p < 700 -> "C"
      [] p >= 300 /\ p < 500 -> "D"
      [] p < 300 -> "F"

\* C18: the summary has percentage = round(score_total / (total_questions *
\* 10) * 100, 1), passed iff percentage >= 50, and the letter of the bands
\* A >= 90, B [70, 90), C [50, 70), D [30, 50), F below 30, the boundaries
\* 90, 89.9, 70, 69.9, 50, 49.9, 30, 29.9 falling as the bands say.
C18_SummaryGrade ==
    last.op = "_build_summary" =>
        LET summary == last.response
            \* score_total / (total_questions * 10) * 100, in tenths of a percent
            p == RoundHalfEven(last.trace.total_score * 100 * 10,
                               last.trace.total_questions * 10 * 100)
        IN  /\ summary.percentage = p
            /\ summary.passed <=> p >= 500
            /\ summary.grade_letter = BandOf(p)
            /\ p = 900 => summary.grade_letter = "A"
            /\ p = 899 => summary.grade_letter = "B"
            /\ p = 700 => summary.grade_letter = "B"
            /\ p = 699 => summary.grade_letter = "C"
            /\ p = 500 => summary.grade_letter = "C" /\ summary.passed
            /\ p = 499 => summary.grade_letter = "D" /\ ~summary.passed
            /\ p = 300 => summary.grade_letter = "D"
            /\ p = 299 => summary.grade_letter = "F"
            /\ summary.max_score = last.trace.total_questions * 10
            /\ summary.total_score = last.trace.total_score

C18_Witness ==
    /\ last.op = "_build_summary"
    /\ last.trace.total_questions = 3
    /\ last.trace.total_score = 2099
    /\ last.response.percentage = 700
    /\ last.response.grade_letter = "B"

(***************************************************************************)
(* A multiple-choice exam from start to summary                            *)
(***************************************************************************)
\* the answer names the correct label: the same letter once trimmed,
\* whatever its case
IsCorrectLabel(answer, correct_answer) == SameLabel(strip(answer), strip(correct_answer))

\* the records of a session that were graded correct
CorrectSet(qs) == {i \in AnsweredSet(qs) : Get(qs[i], "is_correct", FALSE)}

\* C19: in a multiple-choice exam of N questions in which no hint was
\* issued, a submit_answer with the correct label returns 10.0 and any other
\* 0.0; each submit_answer before the N-th returns exam_completed = false
\* with a next_question, the N-th exam_completed = true with an exam_summary
\* and no next_question; with k correct answers the percentage of the
\* summary is 100 * k / N to one decimal (N = 2, k = 1: 50.0 and letter C).
C19_McqExam ==
    (SubmitOk /\ exams[last.exam_id].question_type = "multiple_choice"
              /\ exams[last.exam_id].hints_used = 0) =>
        LET exam == exams[last.exam_id]
            qs == exam.questions
            N == exam.total_questions
            graded == qs[last.trace.pending_idx]
            k == Cardinality(CorrectSet(qs))
            final == exam.current_index = N
        IN  /\ last.response.score =
                 IF IsCorrectLabel(graded.student_answer, graded.correct_answer)
                 THEN 1000 ELSE 0
            /\ last.response.is_correct =
                 IsCorrectLabel(graded.student_answer, graded.correct_answer)
            /\ last.response.exam_completed = final
            /\ ~final => /\ "next_question" \in DOMAIN last.response
                         /\ "exam_summary" \notin DOMAIN last.response
                         /\ exam.current_index < N
            /\ final => /\ "exam_summary" \in DOMAIN last.response
                        /\ "next_question" \notin DOMAIN last.response
                        /\ last.response.exam_summary.percentage = RoundHalfEven(1000 * k, N)
                        /\ last.response.exam_summary.total_score = 1000 * k
                        /\ (N = 2 /\ k = 1) =>
                             /\ last.response.exam_summary.percentage = 500
                             /\ last.response.exam_summary.grade_letter = "C"

C19_Witness ==
    /\ SubmitOk
    /\ exams[last.exam_id].question_type = "multiple_choice"
    /\ exams[last.exam_id].hints_used = 0
    /\ exams[last.exam_id].total_questions = 2
    /\ last.response.exam_completed
    /\ LET qs == exams[last.exam_id].questions
       IN  /\ qs[1].score = 1000 /\ qs[1].student_answer = <<" ", "b">>
           /\ qs[2].score = 0
    /\ last.response.exam_summary.percentage = 500
    /\ last.response.exam_summary.grade_letter = "C"

(***************************************************************************)
(* The generator on its own: generate_question applied to drawn outcomes   *)
(***************************************************************************)
\* an object of the pipeline that lacks the correct answer
CrewDataIncomplete ==
    {[question_text |-> "Q5", explanation |-> "E5"]}

\* what one call of the gateway may come to: a failure, an object of
\* GatewayData, a second object that passes the validation of the fallback,
\* or an object that carries both keys, one of them with an empty value
AttemptOutcomes ==
    GenFailures
    \cup {Json(d) : d \in GatewayData
                         \cup {[question_text |-> "Q4", correct_answer |-> <<"d">>],
                               [question_text |-> "", correct_answer |-> <<"e">>]}}

\* every sequence of MAX_RETRIES attempt outcomes
AllFallbackScripts == [1..MAX_RETRIES -> AttemptOutcomes]

GeneratorInit ==
    /\ exams = [i \in {} |-> NoResponse]
    /\ questions_table = <<>>
    /\ submit_calls = [c \in {} |-> NoResponse]
    /\ last \in {CallRecord([fn |-> "generate_question", question_type |-> "written",
                               gen |-> [crew |-> c, fallback |-> fs]]) :
                   c \in {CallError, NoJson} \cup {Json(d) : d \in CrewData \cup CrewDataIncomplete},
                   fs \in AllFallbackScripts}

\* the gateway calls generate_question makes
GatewayCalls(gen, question_type) ==
    IF crew_generate_question(gen.crew, question_type).ok THEN 0
    ELSE fallback_attempts(gen.fallback)

GenerateQuestion ==
    /\ last.op = "call"
    /\ last.trace.fn = "generate_question"
    /\ LET generated == generate_question(last.trace.gen, "algorithms", "easy",
                                          last.trace.question_type, "concept")
       IN  /\ last' = Returned("generate_question",
                               last.trace @@ [calls |-> GatewayCalls(last.trace.gen,
                                                                     last.trace.question_type)],
                               generated)
           /\ questions_table' = generate_question_saves(questions_table, generated)
    /\ UNCHANGED <<exams, submit_calls>>

GeneratorSpec == GeneratorInit /\ [][GenerateQuestion]_vars

\* attempt i of the fallback gave an object with both required keys
AttemptPasses(script, i) ==
    /\ script[i].kind = "json"
    /\ {"question_text", "correct_answer"} \subseteq DOMAIN script[i].data

\* C20: when the pipeline fails, the fallback calls the gateway at most
\* MAX_RETRIES times; it returns at the first attempt whose output passes
\* validation and calls no more; an attempt that raised, one with no JSON
\* and one that failed validation each use up one attempt; it fails with
\* GenerationFailed only after MAX_RETRIES failed attempts.
C20_FallbackRetries ==
    last.op = "generate_question" =>
        LET script == last.trace.gen.fallback
            calls == last.trace.calls
        IN  IF last.trace.gen.crew.kind = "json"
            THEN last.ok /\ calls = 0
            ELSE /\ calls \in 1..MAX_RETRIES
                 /\ \A j \in 1..(calls - 1) : ~AttemptPasses(script, j)
                 /\ last.ok =>
                      /\ AttemptPasses(script, calls)
                      /\ last.response.question_text = script[calls].data.question_text
                      /\ last.response.correct_answer = script[calls].data.correct_answer
                 /\ ~last.ok =>
                      /\ last.error = "GenerationFailed"
                      /\ calls = MAX_RETRIES
                      /\ ~AttemptPasses(script, MAX_RETRIES)
                 /\ (\E j \in 1..MAX_RETRIES : AttemptPasses(script, j)) => last.ok

C20_Witness ==
    /\ last.op = "generate_question"
    /\ last.ok
    /\ last.trace.gen.crew = CallError
    /\ last.trace.gen.fallback[1] = CallError
    /\ last.trace.gen.fallback[2] = Json([question_text |-> "Q3"])
    /\ last.trace.gen.fallback[3] = Json([question_text |-> "Q4", correct_answer |-> <<"d">>])
    /\ last.trace.calls = 3
    /\ last.response.question_text = "Q4"


\* C21: every payload generate_question returns has a non-empty
\* question_text and a non-empty correct_answer, whichever path produced it.
C21_Original ==
    (last.op = "generate_question" /\ last.ok) =>
        /\ last.response.question_text # ""
        /\ last.response.correct_answer # <<>>

\* the pipeline's object lacks correct_answer and is returned all the same
C21_FailingInput ==
    /\ last.op = "generate_question"
    /\ last.ok
    /\ last.trace.gen.crew = Json([question_text |-> "Q5", explanation |-> "E5"])
    /\ last.trace.calls = 0
    /\ last.response.question_text = "Q5"
    /\ last.response.correct_answer = <<>>


(***************************************************************************)
(* The questions table                                                     *)
(***************************************************************************)
\* the call recorded in l got a payload from generate_question
GenerationReturned(l) ==
    \/ l.op = "start_exam" /\ l.ok
    \/ l.op = "submit_answer" /\ l.ok /\ "next_question" \in DOMAIN l.response
    \/ l.op = "generate_question" /\ l.ok

\* the question text the caller of that call was given
ReturnedText(l) ==
    CASE l.op = "start_exam" -> l.response.question.question_text
      [] l.op = "submit_answer" -> l.response.next_question.question_text
      [] OTHER -> l.response.question_text

\* the records of all sessions
RecordCount == LET ids == DOMAIN exams IN
    IF ids = {} THEN 0 ELSE Len(exams[CHOOSE i \in ids : TRUE].questions)

\* C22: a call whose generation returned a payload has added exactly one row
\* to the questions table, the row of that payload, and every other call
\* (a failed generation included) has added none; so the table has one row
\* per generated question.
C22_OneSavedQuestion ==
    /\ [](Len(questions_table) = RecordCount)
    /\ [][ /\ SubSeq(questions_table', 1, Len(questions_table)) = questions_table
           /\ IF GenerationReturned(last')
              THEN /\ Len(questions_table') = Len(questions_table) + 1
                   /\ questions_table'[Len(questions_table')].question_text
                        = ReturnedText(last')
              ELSE questions_table' = questions_table ]_vars

C22_Witness ==
    /\ last.op = "submit_answer"
    /\ last.ok
    /\ Len(questions_table) = 2
    /\ questions_table[1].question_text = "Q2"
    /\ questions_table[2].question_text = "Q1"
    /\ last.response.next_question.question_text = "Q1"


(***************************************************************************)
(* The extractor on its own: both _extract_json functions on drawn texts   *)
(***************************************************************************)
\* longest drawn text, in tokens
MaxTextLen == 5

\* every text of at most MaxTextLen tokens, and two longer ones in which an
\* object stands before a fenced block
Texts ==
    UNION {[1..n -> {"F", "{", "}", "k", "v", " "}] : n \in 0..MaxTextLen}
    \cup {<<"{", "}", "F", "{", "v", "}", "F">>,
          <<"{", "k", "v", "}", "F", "{", "k", "v", "}", "F">>}

ExtractorInit ==
    /\ exams = [i \in {} |-> NoResponse]
    /\ questions_table = <<>>
    /\ submit_calls = [c \in {} |-> NoResponse]
    /\ last \in {CallRecord([fn |-> f, text |-> t]) :
                   f \in {"crew._extract_json", "_extract_json"}, t \in Texts}

ExtractCrew ==
    /\ last.op = "call"
    /\ last.trace.fn = "crew._extract_json"
    /\ last' = Returned("crew._extract_json", last.trace, crew_extract_json(last.trace.text))
    /\ UNCHANGED <<exams, questions_table, submit_calls>>

ExtractFallback ==
    /\ last.op = "call"
    /\ last.trace.fn = "_extract_json"
    /\ last' = Returned("_extract_json", last.trace, _extract_json(last.trace.text))
    /\ UNCHANGED <<exams, questions_table, submit_calls>>

ExtractorNext ==
    \/ ExtractCrew
    \/ ExtractFallback

ExtractorSpec == ExtractorInit /\ [][ExtractorNext]_vars

\* the three stages, each tried on the text itself: the parse of the fenced
\* block, of the first balanced-brace object, and of the whole trimmed text
StageParses(text) ==
    <<IF code_block_search(text) # NoMatch THEN json_loads(code_block_search(text))
      ELSE Raise("NoCandidate"),
      IF json_match_search(text) # NoMatch THEN json_loads(json_match_search(text))
      ELSE Raise("NoCandidate"),
      json_loads(strip(text))>>

\* the first stage that parses wins; failure only when none does
FirstSuccessfulParse(text) ==
    LET st == StageParses(text)
        won == {i \in 1..3 : st[i].ok}
    IN  IF won = {} THEN Raise("MalformedOutput")
        ELSE st[CHOOSE i \in won : \A j \in won : i <= j]

\* C23: the extractor tries the fenced block, the first balanced-brace
\* object and the whole trimmed text in this order; a stage whose candidate
\* does not parse falls through to the next; the first successful parse is
\* returned and the extraction fails only when every stage fails.
C23_Original ==
    last.op \in {"crew._extract_json", "_extract_json"} =>
        LET want == FirstSuccessfulParse(last.trace.text)
        IN  /\ last.ok = want.ok
            /\ last.ok => last.response = want.value

\* a fenced block that does not parse before an object that does: the
\* pipeline's extractor raises at the first stage
C23_FailingInput ==
    /\ last.op = "crew._extract_json"
    /\ last.trace.text = <<"F", "{", "{", "}", "F">>
    /\ ~last.ok
    /\ last.error = "JSONDecodeError"
    /\ StageParses(last.trace.text)[1].ok = FALSE
    /\ StageParses(last.trace.text)[2] = Return(<<"{", "}">>)


(***************************************************************************)
(* Status codes of the routes                                              *)
(***************************************************************************)
ClientError(code) == code \in 400..499
ServerError(code) == code \in 500..599

\* C24: when question generation is exhausted the caller of start_exam and
\* the caller of submit_answer receive a server error; an unknown identifier
\* and a request in an invalid state are reported as client errors.
C24_Original ==
    LET code == status_code(last.op, last.ok, last.error)
    IN  /\ (last.op \in {"start_exam", "submit_answer"} /\ last.error = "GenerationFailed")
             => ServerError(code)
        /\ last.error \in {"ExamNotFound", "ExamAlreadyCompleted", "NoPendingQuestion",
                           "ExamNotInProgress", "HintsDisabledForMode", "HintsExhausted"}
             => ClientError(code)

\* the generation of the next question is exhausted inside submit_answer
C24_FailingInput ==
    /\ last.op = "submit_answer"
    /\ ~last.ok
    /\ last.error = "GenerationFailed"
    /\ last.exam_id \in DOMAIN exams
    /\ exams[last.exam_id].status = "in_progress"
    /\ status_code(last.op, last.ok, last.error) = 404


(***************************************************************************)
(* Two submit_answer calls on one session that are not serialized: a call  *)
(* reads its session, awaits the grader and the generator, and writes      *)
(***************************************************************************)
CallIds == {"call-1", "call-2"}
RaceGenScripts ==
    {[crew |-> Json(d), fallback |-> Script(CallError, MAX_RETRIES, CallError)] : d \in CrewData}
    \cup {[crew |-> CallError, fallback |-> Script(CallError, n, Json(d))] :
            n \in {0, MAX_RETRIES}, d \in GatewayData}

RaceStart ==
    StartExamFrom({1, 2}, {[question_type |-> "written", mode |-> "practice"]}, RaceGenScripts)

\* the call reads its session and runs the checks; a call that fails them
\* ends here
SubmitRead ==
    \E c \in CallIds \ DOMAIN submit_calls, exam_id \in DOMAIN exams, answer \in Answers :
      LET checks == submit_answer_checks(exams, exam_id)
          call == [exam_id |-> exam_id, answer |-> answer, snapshot |-> exams[exam_id]]
      IN  /\ submit_calls' = [k \in DOMAIN submit_calls \cup {c} |->
                                IF k # c THEN submit_calls[k]
                                ELSE IF checks.ok THEN call @@ [phase |-> "read"]
                                ELSE call @@ [phase |-> "done", ok |-> FALSE, order |-> 0]]
          /\ last' = IF checks.ok THEN last
                     ELSE Outcome("submit_answer", exam_id, checks)
          /\ UNCHANGED <<exams, questions_table>>

\* the awaited calls of the call return and it writes what it computed
SubmitWrite ==
    \E c \in DOMAIN submit_calls :
      /\ submit_calls[c].phase = "read"
      /\ LET call == submit_calls[c]
             store == [exams EXCEPT ![call.exam_id] = call.snapshot]
             wrote == Cardinality({k \in DOMAIN submit_calls :
                                     submit_calls[k].phase = "done" /\ submit_calls[k].ok})
             grade_scripts == {Script(CallError, n, Json(d)) :
                                 n \in {0, MAX_RETRIES}, d \in GradeData}
         IN  \E grade_result \in GradeCallFrom(grade_scripts, store, call.exam_id, call.answer) :
             \E generated \in GenerateCallFrom(RaceGenScripts, call.snapshot.topic,
                                               call.snapshot.difficulty,
                                               call.snapshot.question_type,
                                               call.snapshot.category) :
               LET result == submit_answer_from(call.snapshot, exams, call.exam_id,
                                                call.answer, grade_result, generated)
               IN  /\ exams' = IF result.ok
                               THEN ExamRepository_update(exams, call.exam_id,
                                                          result.value.update_data)
                               ELSE exams
                   /\ last' = Outcome("submit_answer", call.exam_id, result)
                   /\ questions_table' =
                        IF GeneratesNext(store, call.exam_id)
                        THEN generate_question_saves(questions_table, generated)
                        ELSE questions_table
                   /\ submit_calls' =
                        [submit_calls EXCEPT ![c] =
                           [exam_id |-> call.exam_id, answer |-> call.answer,
                            snapshot |-> call.snapshot, phase |-> "done",
                            ok |-> result.ok,
                            order |-> IF result.ok THEN wrote + 1 ELSE 0,
                            result |-> IF result.ok THEN result.value ELSE NoResponse]]

RaceNext ==
    \/ RaceStart
    \/ SubmitRead
    \/ SubmitWrite

RaceSpec == Init /\ [][RaceNext]_vars

\* calls a and b have both written, a first, and had both read their
\* session before either wrote (they read the same row)
RacedPair(a, b) ==
    /\ a \in DOMAIN submit_calls /\ b \in DOMAIN submit_calls
    /\ submit_calls[a].phase = "done" /\ submit_calls[a].ok
    /\ submit_calls[b].phase = "done" /\ submit_calls[b].ok
    /\ submit_calls[a].order < submit_calls[b].order
    /\ submit_calls[a].exam_id = submit_calls[b].exam_id
    /\ submit_calls[a].snapshot = submit_calls[b].snapshot

LifecycleGenScripts ==
    {[crew |-> Json(d), fallback |-> Script(CallError, MAX_RETRIES, CallError)] :
        d \in CrewData \cup CrewDataIncomplete}
    \cup {[crew |-> NoJson, fallback |-> Script(NoJson, n, Json(d))] :
            n \in {1, MAX_RETRIES}, d \in GatewayData}

LifecycleNext ==
    \/ StartExamFrom({1, 2},
                     {[question_type |-> "written", mode |-> "practice"],
                      [question_type |-> "multiple_choice", mode |-> "mock"]},
                     LifecycleGenScripts)
    \/ SubmitAnswerFrom(Answers,
                        {Script(NoJson, n, Json(d)) : n \in {0, MAX_RETRIES}, d \in GradeData},
                        LifecycleGenScripts)
    \/ GetHintFrom(HintOutcomes)

LifecycleSpec == Init /\ [][LifecycleNext]_vars

\* the records of session id before and after a step
RecordsBefore(id) == IF id \in DOMAIN exams THEN exams[id].questions ELSE <<>>
RecordsAfter(id) == exams'[id].questions

\* a step keeps every session, every record in its place with its text and
\* answer, turns pending records only into answered ones and only in a
\* submit_answer that returned, and adds only pending records
StepKeepsRecords ==
    /\ DOMAIN exams \subseteq DOMAIN exams'
    /\ \A id \in DOMAIN exams' :
         /\ Len(RecordsAfter(id)) >= Len(RecordsBefore(id))
         /\ \A i \in 1..Len(RecordsBefore(id)) :
              /\ RecordsAfter(id)[i].question_text = RecordsBefore(id)[i].question_text
              /\ RecordsAfter(id)[i].correct_answer = RecordsBefore(id)[i].correct_answer
              /\ ~Pending(RecordsBefore(id)[i]) => RecordsAfter(id)[i] = RecordsBefore(id)[i]
              /\ (Pending(RecordsBefore(id)[i]) /\ ~Pending(RecordsAfter(id)[i])) =>
                   (last'.op = "submit_answer" /\ last'.ok /\ last'.exam_id = id
                    /\ last'.trace.pending_idx = i)
         /\ \A i \in (Len(RecordsBefore(id)) + 1)..Len(RecordsAfter(id)) :
              Pending(RecordsAfter(id)[i])

\* every record a step adds has a correct answer that is not empty
StepPopulatesAnswer ==
    \A id \in DOMAIN exams' :
      \A i \in (Len(RecordsBefore(id)) + 1)..Len(RecordsAfter(id)) :
        RecordsAfter(id)[i].correct_answer # <<>>

\* the lifecycle of the records without the claim on the content of the
\* answer: it holds on every step
C26_Lifecycle == [][StepKeepsRecords]_vars

\* C26: every QuestionRecord is created pending with its correct answer
\* populated, becomes answered exactly once, in the submit_answer that grades
\* it, and never pending again; the sequence only grows, no record is removed
\* or moved, and the question_text and correct_answer of a record never
\* change.
C26_Original == [][StepKeepsRecords /\ StepPopulatesAnswer]_vars

\* a session started on a pipeline object without correct_answer
C26_FailingInput ==
    /\ last.op = "start_exam"
    /\ last.ok
    /\ Len(exams[last.exam_id].questions) = 1
    /\ exams[last.exam_id].questions[1].pending
    /\ exams[last.exam_id].questions[1].question_text = "Q5"
    /\ exams[last.exam_id].questions[1].correct_answer = <<>>


(***************************************************************************)
(* Sessions whose every generation call succeeds, calls being serialized   *)
(***************************************************************************)
\* the pipeline returns a question, or it fails and the fallback returns
\* one at its first or at its last attempt
SuccessfulGenScripts ==
    {[crew |-> Json(d), fallback |-> Script(CallError, MAX_RETRIES, CallError)] : d \in CrewData}
    \cup {[crew |-> CallError, fallback |-> Script(f, n, Json(d))] :
            f \in GenFailures, n \in {0, MAX_RETRIES - 1}, d \in GatewayData}

SerialNext ==
    \/ StartExamFrom(1..MaxQuestions, StartRequests, SuccessfulGenScripts)
    \/ SubmitAnswerFrom(Answers, GradeScripts, SuccessfulGenScripts)
    \/ GetHintFrom(HintOutcomes)

SerialSpec == Init /\ [][SerialNext]_vars

\* the index of session id before a step, 0 for a session the step creates
IndexBefore(id) == IF id \in DOMAIN exams THEN exams[id].current_index ELSE 0

\* C27: when every generation call succeeds and calls are serialized, every
\* successful submit_answer raises current_index by exactly 1 and nothing
\* else changes it, so the session is completed after exactly
\* total_questions successful submits; the generator has run once per record
\* (once at start, once after each answer but the last), total_questions
\* times when the session is completed, and the session never holds more
\* than total_questions records.
C27_SessionLength ==
    /\ [](\A id \in DOMAIN exams :
            /\ Len(exams[id].questions) <= exams[id].total_questions
            /\ exams[id].current_index <= exams[id].total_questions
            /\ Len(questions_table) = Len(exams[id].questions)
            /\ exams[id].status = "completed" <=>
                 exams[id].current_index = exams[id].total_questions
            /\ exams[id].status = "completed" =>
                 Len(questions_table) = exams[id].total_questions
            /\ exams[id].status # "completed" =>
                 Len(questions_table) = exams[id].current_index + 1)
    /\ [][\A id \in DOMAIN exams' :
            /\ (last'.op = "submit_answer" /\ last'.ok /\ last'.exam_id = id)
                 => exams'[id].current_index = IndexBefore(id) + 1
            /\ ~(last'.op = "submit_answer" /\ last'.ok /\ last'.exam_id = id)
                 => exams'[id].current_index = IndexBefore(id)
            /\ last'.error # "GenerationFailed"]_vars

C27_Witness ==
    /\ last.op = "submit_answer"
    /\ last.ok
    /\ exams[last.exam_id].total_questions = 2
    /\ exams[last.exam_id].status = "completed"
    /\ exams[last.exam_id].current_index = 2
    /\ Len(exams[last.exam_id].questions) = 2
    /\ Len(questions_table) = 2
    /\ {questions_table[1].question_text, questions_table[2].question_text} = {"Q1", "Q2"}


MaxRetriesSetting == 4

\* what one attempt may come to: the call raises, no JSON, an object without
\* score, an object whose score is not a number, two objects with a score
SingleAttemptOutcomes ==
    {CallError, NoJson, Json([feedback |-> <<"fb">>]),
     Json([score |-> NonNumericScore, feedback |-> <<"fb">>]),
     Json([score |-> 725, feedback |-> <<"fb">>]),
     Json([score |-> 1200, passed |-> TRUE])}

SinglePromptInit ==
    /\ exams = [i \in {} |-> NoResponse]
    /\ questions_table = <<>>
    /\ submit_calls = [c \in {} |-> NoResponse]
    /\ last \in UNION {{CallRecord([fn |-> "_grade_single_prompt", MAX_RETRIES |-> n,
                                      script |-> s]) :
                             s \in [1..n -> SingleAttemptOutcomes]} :
                        n \in 1..MaxRetriesSetting}

GradeSinglePrompt ==
    /\ last.op = "call"
    /\ last.trace.fn = "_grade_single_prompt"
    /\ LET n == last.trace.MAX_RETRIES
           script == last.trace.script
       IN  last' = Returned("_grade_single_prompt",
                            last.trace @@ [calls |-> single_prompt_attempts(n, script),
                                           prompts |-> single_prompt_prompts(n, script)],
                            _grade_single_prompt_with(n, script))
    /\ UNCHANGED <<exams, questions_table, submit_calls>>

SinglePromptSpec == SinglePromptInit /\ [][GradeSinglePrompt]_vars

\* the parsed output of attempt i carries a score key
HasScoreKey(script, i) == script[i].kind = "json" /\ "score" \in DOMAIN script[i].data
\* ... whose value is a number
HasNumericScore(script, i) == HasScoreKey(script, i) /\ script[i].data.score # NonNumericScore

\* the retry discipline, for a given reading of "the attempt succeeded"
RetryDiscipline(Succeeds(_, _)) ==
    last.op = "_grade_single_prompt" =>
        LET n == last.trace.MAX_RETRIES
            script == last.trace.script
            calls == last.trace.calls
        IN  /\ calls \in 1..n
            /\ Len(last.trace.prompts) = calls
            /\ \A j \in 1..(calls - 1) : ~Succeeds(script, j)
            /\ last.ok <=> \E j \in 1..n : Succeeds(script, j)
            /\ last.ok =>
                 /\ Succeeds(script, calls)
                 /\ last.response.score = Max(0, Min(1000, script[calls].data.score))
                 /\ last.response.feedback = Get(script[calls].data, "feedback", <<>>)
            /\ ~last.ok => (calls = n /\ last.error = "ValueError")

\* C29 as stated: the single-prompt path calls the gateway at most
\* MAX_RETRIES times, returns the result of the first attempt whose parsed
\* output contains a score key and calls no more, counts a gateway error or
\* an output without a score key as a used attempt, and fails only after
\* MAX_RETRIES failed attempts.
C29_Original == RetryDiscipline(HasScoreKey)

\* C29, amended: the attempt that returns is the first whose parsed output
\* contains a score key with a numeric value; an output whose score is not
\* a number uses up an attempt like a gateway error or a missing score key.
C29_SinglePromptRetries == RetryDiscipline(HasNumericScore)

C29_Witness ==
    /\ last.op = "_grade_single_prompt"
    /\ last.ok
    /\ last.trace.MAX_RETRIES = 3
    /\ last.trace.script[1] = CallError
    /\ last.trace.script[2] = Json([score |-> NonNumericScore, feedback |-> <<"fb">>])
    /\ last.trace.script[3] = Json([score |-> 1200, passed |-> TRUE])
    /\ last.trace.calls = 3
    /\ last.response.score = 1000

\* C30: for every MAX_RETRIES >= 1, attempt 1 uses the base prompt, attempt 2
\* the base prompt with the corrective instruction, and the final attempt
\* (number MAX_RETRIES) the simplified prompt.
C30_Original ==
    last.op = "_grade_single_prompt" =>
        LET n == last.trace.MAX_RETRIES
            prompts == last.trace.prompts
        IN  /\ prompts[1] = "prompt"
            /\ Len(prompts) >= 2 => prompts[2] = "prompt + RETRY_ADDITION"
            /\ Len(prompts) = n => prompts[n] = "simplified prompt"

\* four attempts configured, all used: the last one gets the base prompt
C30_FailingInput ==
    /\ last.op = "_grade_single_prompt"
    /\ last.trace.MAX_RETRIES = 4
    /\ ~last.ok
    /\ last.trace.calls = 4
    /\ last.trace.prompts = <<"prompt", "prompt + RETRY_ADDITION", "simplified prompt", "prompt">>


(***************************************************************************)
(* C31: a stage of the pipeline that fails keeps all its defaults          *)
(***************************************************************************)
\* grade returned the combined result of a pipeline run of a written answer
CombinedReturned ==
    /\ last.op = "grade"
    /\ last.trace.request.question_type = "written"
    /\ last.trace.GRADING_MODE = "crew"
    /\ last.trace.run.kind = "ran"

\* the output of the grading stage cannot be parsed or converted
GradingStageFails(out) ==
    \/ out.kind # "json"
    \/ Get(out.data, "score", 500) = NonNumericScore
    \/ Get(out.data, "max_score", 10) = NonNumericScore

\* the fields of each stage as the claim gives them
ScoringFieldsAsClaimed(out, r) ==
    IF GradingStageFails(out)
    THEN r.score = 500 /\ r.grade_letter = "C" /\ r.passed = TRUE
    ELSE /\ r.score = Get(out.data, "score", 500)
         /\ r.grade_letter = Get(out.data, "grade_letter", "C")
         /\ r.passed = Get(out.data, "passed", r.score >= 500)

FeedbackFieldsAsClaimed(out, r) ==
    LET data == IF out.kind = "json" THEN out.data ELSE [none |-> TRUE]
    IN  /\ r.mistakes = Get(data, "mistakes", <<>>)
        /\ r.strengths = Get(data, "strengths", <<>>)
        /\ r.recommendations = Get(data, "recommendations", <<>>)
        /\ r.feedback = Get(data, "feedback", <<>>)

ReviewFieldsAsClaimed(out, r) ==
    r.encouragement = IF out.kind = "json" THEN Get(out.data, "encouragement", <<>>) ELSE <<>>

\* C31: in a pipeline run, a stage whose output cannot be parsed or
\* converted keeps all its defaults, the other stages' fields come from
\* their own outputs, and the combined grade is returned
C31_Original ==
    CombinedReturned =>
        /\ last.ok
        /\ ScoringFieldsAsClaimed(last.trace.run.grading, last.response)
        /\ FeedbackFieldsAsClaimed(last.trace.run.feedback, last.response)
        /\ ReviewFieldsAsClaimed(last.trace.run.review, last.response)

\* the feedback and review fields are as claimed, and a grade is returned
C31_TextStages ==
    CombinedReturned =>
        /\ last.ok
        /\ FeedbackFieldsAsClaimed(last.trace.run.feedback, last.response)
        /\ ReviewFieldsAsClaimed(last.trace.run.review, last.response)

\* a grading output whose max_score does not convert: the score of the
\* output is returned with the default letter and verdict
C31_FailingInput ==
    /\ CombinedReturned
    /\ last.trace.run.grading.kind = "json"
    /\ Get(last.trace.run.grading.data, "max_score", 10) = NonNumericScore
    /\ last.trace.run.feedback.kind = "json"
    /\ last.trace.run.review.kind = "nojson"
    /\ last.ok
    /\ last.response.score = 200
    /\ last.response.grade_letter = "C"
    /\ last.response.passed = TRUE
    /\ last.response.encouragement = <<>>


(***************************************************************************)
(* C32: a missing grade letter is the band of the returned score           *)
(***************************************************************************)
\* grade returned a grade of a written answer through the pipeline
PipelineGraded ==
    /\ last.op = "grade" /\ last.ok
    /\ last.trace.request.question_type = "written"
    /\ last.trace.GRADING_MODE = "crew"
    /\ last.trace.run.kind = "ran"

\* grade returned a grade of a written answer through the single-prompt path
SinglePromptGraded ==
    /\ last.op = "grade" /\ last.ok
    /\ last.trace.request.question_type = "written"
    /\ last.trace.GRADING_MODE # "crew" \/ last.trace.run.kind = "error"

\* the model output the returned grade was built from
GradeOutput ==
    IF PipelineGraded THEN last.trace.run.grading
    ELSE last.trace.script[single_prompt_attempts(MAX_RETRIES, last.trace.script)]

\* that output carries a score and no grade_letter
ScoreWithoutLetter(out) ==
    /\ out.kind = "json"
    /\ "score" \in DOMAIN out.data
    /\ "grade_letter" \notin DOMAIN out.data

LetterIsBandOfScore ==
    last.response.grade_letter = GradingService_score_to_grade(last.response.score)

\* C32: when the model output carries a score and no grade_letter, the
\* returned grade_letter is the band of the returned score, on the
\* single-prompt path and on the pipeline path alike
C32_Original ==
    (PipelineGraded \/ SinglePromptGraded) /\ ScoreWithoutLetter(GradeOutput)
        => LetterIsBandOfScore

\* the same on the single-prompt path alone
C32_SinglePromptPath ==
    SinglePromptGraded /\ ScoreWithoutLetter(GradeOutput) => LetterIsBandOfScore

\* the pipeline returns the letter C with the score 7.25 of its grading stage
C32_FailingInput ==
    /\ PipelineGraded
    /\ last.trace.run.grading = Json([score |-> 725])
    /\ last.response.score = 725
    /\ last.response.grade_letter = "C"


(***************************************************************************)
(* C33: what a successful get_hint changes                                 *)
(***************************************************************************)
\* the record without its hint list
WithoutHints(q) == [k \in DOMAIN q \ {"hints"} |-> q[k]]

\* the session without its records and its hint counter
WithoutQuestionsAndHints(exam) ==
    [k \in DOMAIN exam \ {"questions", "hints_used"} |-> exam[k]]

WrittenGradingDone ==
    /\ last.op \in {"grade", "_grade_answer"}
    /\ last.trace.request.question_type = "written"

\* every single-prompt attempt of the call failed
SinglePromptExhausted == ~_grade_single_prompt(last.trace.script).ok

\* C34: for a written answer, graded through submit_answer or through the
\* grader, the pipeline is attempted first, the single-prompt path only
\* after the pipeline could not be invoked, the similarity fallback only
\* after every single-prompt attempt failed
C34_Original ==
    WrittenGradingDone =>
        LET tiers == last.trace.tiers
        IN  /\ tiers[1] = "pipeline"
            /\ \A i \in 1..Len(tiers) :
                 /\ tiers[i] = "single" => i = 2 /\ last.trace.run.kind = "error"
                 /\ tiers[i] = "similarity" =>
                      i = 3 /\ tiers[2] = "single" /\ SinglePromptExhausted

\* what holds of the grader called directly in its shipped mode
C34_GraderInCrewMode ==
    (WrittenGradingDone /\ last.op = "grade" /\ last.trace.GRADING_MODE = "crew") =>
        LET tiers == last.trace.tiers
        IN  /\ tiers[1] = "pipeline"
            /\ Len(tiers) <= 2
            /\ Len(tiers) = 2 => tiers[2] = "single" /\ last.trace.run.kind = "error"

\* the grader of submit_answer returned the grade of its first
\* single-prompt attempt: no pipeline was tried
C34_FailingInput ==
    /\ last.op = "_grade_answer"
    /\ last.trace.request.question_type = "written"
    /\ last.trace.tiers = <<"single">>
    /\ AttemptReturns(last.trace.script[1])
    /\ last.response.score = 725


(***************************************************************************)
(* C35: a submit_answer whose next question cannot be generated            *)
(***************************************************************************)
\* C35: when the generation of the next question fails during a non-final
\* submit_answer, the call fails and the table is as before the call: the
\* question is still pending, without student answer or score, and
\* current_index, score_total, hints_used and status are unchanged, so the
\* checks of submit_answer pass again for the same record.  No question is
\* saved either.
C35_FailedGeneration ==
    [][(last'.op = "submit_answer" /\ last'.error = "GenerationFailed") =>
         LET id == last'.exam_id
             idx == LastPendingIndex(exams[id].questions)
         IN  /\ ~last'.ok
             /\ submit_answer_checks(exams, id).ok
             /\ GeneratesNext(exams, id)
             /\ exams' = exams
             /\ questions_table' = questions_table
             /\ Pending(exams'[id].questions[idx])
             /\ DOMAIN exams'[id].questions[idx] \cap {"student_answer", "score"} = {}
             /\ exams'[id].status = "in_progress"
             /\ submit_answer_checks(exams', id) = Return(idx)]_vars

\* the generation failed in the submit of the first question of a session
\* of two, on which two hints had been given
C35_Witness ==
    /\ last.op = "submit_answer"
    /\ last.error = "GenerationFailed"
    /\ LET exam == exams[last.exam_id]
       IN  /\ exam.total_questions = 2
           /\ exam.current_index = 0
           /\ exam.score_total = 0
           /\ exam.hints_used = 2
           /\ exam.status = "in_progress"
           /\ Len(exam.questions) = 1
           /\ Pending(exam.questions[1])
           /\ Len(Hints(exam.questions[1])) = 2


(***************************************************************************)
(* C36: hints_used counts the hints of all records                         *)
(***************************************************************************)
RECURSIVE HintCount(_)
\* the hints of the records of a list, counted together
HintCount(qs) ==
    IF qs = <<>> THEN 0 ELSE Len(Hints(Head(qs))) + HintCount(Tail(qs))

HintsUsedIsHintCount ==
    \A id \in DOMAIN exams : exams[id].hints_used = HintCount(exams[id].questions)

\* a successful submit_answer leaves the hint list of the record it grades
\* as it was
SubmitKeepsHints ==
    (last'.op = "submit_answer" /\ last'.ok) =>
        LET id == last'.exam_id
            idx == LastPendingIndex(exams[id].questions)
        IN  /\ ~Pending(exams'[id].questions[idx])
            /\ Hints(exams'[id].questions[idx]) = Hints(exams[id].questions[idx])

RECURSIVE ScoreSum(_)
\* the scores of the answered records of a list, added up
ScoreSum(qs) ==
    IF qs = <<>> THEN 0
    ELSE (IF Pending(Head(qs)) THEN 0 ELSE Head(qs).score) + ScoreSum(Tail(qs))

\* C37: with serialized calls, in every reachable state score_total of a
\* session is the sum of the score fields of its records that are not
\* pending, and the score_so_far a submit_answer returned is the score_total
\* it stored
C37_ScoreTotal ==
    /\ \A id \in DOMAIN exams : exams[id].score_total = ScoreSum(exams[id].questions)
    /\ SubmitOk => last.response.score_so_far = exams[last.exam_id].score_total

\* two answers were graded, each with a score reduced by hints
C37_Witness ==
    /\ SubmitOk
    /\ LET exam == exams[last.exam_id]
       IN  /\ Len(exam.questions) = 2
           /\ ~Pending(exam.questions[2])
           /\ Len(Hints(exam.questions[1])) = 1
           /\ Len(Hints(exam.questions[2])) = 2
           /\ exam.questions[1].score > 0
           /\ exam.questions[2].score > 0
           /\ exam.questions[1].score # exam.questions[2].score
           /\ last.response.score_so_far = exam.questions[1].score + exam.questions[2].score


(***************************************************************************)
(* get_hint interleaved with submit_answer: get_hint reads its session,    *)
(* awaits the hint call, and writes; a submit_answer may run in between    *)
(***************************************************************************)
\* the call reads its session and runs its checks, the limit of hints
\* included; a call that fails them ends here
HintRead ==
    \E c \in CallIds \ DOMAIN submit_calls, exam_id \in DOMAIN exams :
      LET result == get_hint(exams, exam_id, CallError)
          call == [exam_id |-> exam_id, snapshot |-> exams[exam_id]]
      IN  /\ submit_calls' = [k \in DOMAIN submit_calls \cup {c} |->
                                IF k # c THEN submit_calls[k]
                                ELSE IF result.ok THEN call @@ [phase |-> "read"]
                                ELSE call @@ [phase |-> "done", ok |-> FALSE]]
          /\ last' = IF result.ok THEN last ELSE Outcome("get_hint", exam_id, result)
          /\ UNCHANGED <<exams, questions_table>>

\* the awaited hint call returns and the call writes what it computed from
\* the row it read; `before` and `after` are the row it finds and leaves
HintWrite ==
    \E c \in DOMAIN submit_calls, out \in HintOutcomes :
      /\ submit_calls[c].phase = "read"
      /\ LET call == submit_calls[c]
             result == get_hint_from(call.snapshot, exams, call.exam_id, out)
         IN  /\ exams' = ExamRepository_update(exams, call.exam_id, result.value.update_data)
             /\ last' = Outcome("get_hint", call.exam_id, result)
             /\ submit_calls' =
                  [submit_calls EXCEPT ![c] =
                     [exam_id |-> call.exam_id, snapshot |-> call.snapshot,
                      phase |-> "done", ok |-> TRUE,
                      before |-> exams[call.exam_id], after |-> exams'[call.exam_id]]]
             /\ UNCHANGED questions_table

HintRaceNext ==
    \/ RaceStart
    \/ HintRead
    \/ SubmitAnswerFrom(Answers, {Script(CallError, 0, Json(d)) : d \in GradeData},
                        RaceGenScripts)
    \/ HintWrite

HintRaceSpec == Init /\ [][HintRaceNext]_vars

\* get_hint call c has written, and a submit_answer wrote to its session
\* after the call read it and before the call wrote
HintOvertaken(c) ==
    /\ c \in DOMAIN submit_calls
    /\ submit_calls[c].phase = "done" /\ submit_calls[c].ok
    /\ submit_calls[c].before.current_index = submit_calls[c].snapshot.current_index + 1

\* the session invariant, of one row
SessionInvariant(row) ==
    /\ row.current_index = Cardinality(AnsweredSet(row.questions))
    /\ row.status = "completed" => PendingSet(row.questions) = {}

C38_WriteOfStaleList ==
    \A c \in CallIds :
      HintOvertaken(c) =>
        LET call == submit_calls[c]
        IN  /\ call.after.current_index = call.before.current_index
            /\ call.after.status = call.before.status
            /\ call.after.score_total = call.before.score_total
            /\ Len(call.after.questions) = Len(call.snapshot.questions)

C39_Original ==
    last.op = "_build_summary" =>
        last.trace.listed.grade_letter = last.response.grade_letter

\* the two agree on the percentage, and on the letter whenever the
\* percentage is not changed by its rounding to one decimal
C39_SamePercentage ==
    last.op = "_build_summary" =>
        /\ last.trace.listed.percentage = last.response.percentage
        /\ last.response.percentage * last.trace.total_questions = last.trace.total_score
             => last.trace.listed.grade_letter = last.response.grade_letter

\* three answers with 26.99 points in all: 89.97 per cent, B in the list, and
\* 90.0 per cent after rounding, A in the summary
C39_FailingInput ==
    /\ last.op = "_build_summary"
    /\ last.trace.total_questions = 3
    /\ last.trace.total_score = 2699
    /\ last.response.percentage = 900
    /\ last.response.grade_letter = "A"
    /\ last.trace.listed.percentage = 900
    /\ last.trace.listed.grade_letter = "B"


(***************************************************************************)
(* C40: what the merge of a grade keeps of the pending record              *)
(***************************************************************************)
\* the successful submit_answer of this step kept field k of the record it
\* graded (a field the record does not carry reads as None)
SubmitKeepsField(k) ==
    LET id == last'.exam_id
        idx == LastPendingIndex(exams[id].questions)
    IN  Get(exams'[id].questions[idx], k, NoneStr) = Get(exams[id].questions[idx], k, NoneStr)

\* the successful submit_answer of this step changed no other record that
\* existed
SubmitKeepsOtherRecords ==
    LET id == last'.exam_id
        idx == LastPendingIndex(exams[id].questions)
    IN  \A i \in 1..Len(exams[id].questions) :
          i # idx => exams'[id].questions[i] = exams[id].questions[i]

\* C40: when submit_answer merges the grade into the pending record it
\* keeps the record's question_text, correct_answer, explanation, options,
\* hints and code_snippet, and changes no other existing record
C40_Original ==
    [][(last'.op = "submit_answer" /\ last'.ok) =>
         /\ \A k \in {"question_text", "correct_answer", "explanation", "options",
                       "code_snippet"} : SubmitKeepsField(k)
         /\ SubmitKeepsHints
         /\ SubmitKeepsOtherRecords]_vars

\* the same without the code_snippet
C40_KeptFields ==
    [][(last'.op = "submit_answer" /\ last'.ok) =>
         /\ \A k \in {"question_text", "correct_answer", "explanation", "options"} :
              SubmitKeepsField(k)
         /\ SubmitKeepsHints
         /\ SubmitKeepsOtherRecords]_vars

\* the question that was generated with a code snippet has been answered
\* after a hint: its record has no code_snippet any more
C40_FailingInput ==
    /\ SubmitOk
    /\ LET q == exams[last.exam_id].questions[last.trace.pending_idx]
       IN  /\ ~Pending(q)
           /\ q.question_text = "Q2"
           /\ q.explanation = "E2"
           /\ Len(Hints(q)) = 1
           /\ "code_snippet" \notin DOMAIN q

====
